---- MODULE Spec2Model ----
(***************************************************************************)
(* Model of tinywasm/orm's code generator (ormc.go, relation resolver,    *)
(* Ormc handler): ParseStruct, GenerateForFile, ResolveRelations,          *)
(* collectAllStructs, generateAll and Run.                                 *)
(*                                                                         *)
(* A Go source file is represented by the part of its syntax tree the code *)
(* inspects: the package name, the type declarations (name, struct or not, *)
(* field list) and the method declarations.  A field is                    *)
(*   [names, typ, tag]                                                     *)
(* names : the identifiers of the field (<<>> for an embedded field),      *)
(* typ   : [shape, name], the shape of the type expression,                *)
(* tag   : the db:"..." value as its comma separated tokens, each token    *)
(*         [tok, parts] (parts: the ':' separated segments after "ref=").  *)
(***************************************************************************)
EXTENDS Integers, Sequences, FiniteSets, TLC

VARIABLES
    node,       \* the parsed source file handed to ParseStruct
    target,     \* structName argument of ParseStruct
    ret,        \* what ParseStruct returned: [err, info]
    log,        \* messages passed to o.log, in order
    disk,       \* files written by GenerateForFile: path -> generated unit
    pc,         \* position of the caller
    all,        \* map[string]StructInfo handed to ResolveRelations
    iter,       \* order in which `range all` yielded the keys
    tree,       \* project tree scanned by Run: path -> file
    readonly,   \* paths os.WriteFile cannot write
    runs,       \* number of completed Run calls
    runRet,     \* what the last Run returned
    calls,      \* GenerateForFile calls of the last Run: <<infos, sourceFile>>
    tx,         \* DB.Tx: the executor of db, the position of the current call,
                \* the calls made so far and the results returned
    qb,         \* the query builder returned by db.Query(m)
    clause,     \* the Clause returned by the last qb.Where(column)
    chain,      \* the fluent calls made on qb and its clause, in order
    last        \* the last operation of DB or QB: its inputs, the calls it
                \* made on compiler, executor, rows and callbacks, its result

vars == <<node, target, ret, log, disk, pc, all, iter, tree, readonly, runs, runRet, calls, tx,
          qb, clause, chain, last>>

(***************************************************************************)
(* Bounds of the model.                                                    *)
(***************************************************************************)
MaxFields == 2
MaxRuns == 2
MaxResolves == 2
MaxDecls == 2
MaxTokens == 3
MaxTx == 2
MaxOps == 2
MaxCols == 2
MaxRows == 2
MaxChain == 4

(***************************************************************************)
(* Program constants.                                                      *)
(***************************************************************************)
TypeText == 0
TypeInt64 == 1
TypeFloat64 == 2
TypeBool == 3
TypeBlob == 4

ConstraintNone == 0
ConstraintPK == 1
ConstraintUnique == 2
ConstraintNotNull == 4
ConstraintAutoIncrement == 8

(***************************************************************************)
(* Generic helpers.                                                        *)
(***************************************************************************)
RECURSIVE BitOr(_, _)
BitOr(a, b) ==
    IF a = 0 THEN b
    ELSE IF b = 0 THEN a
    ELSE (IF a % 2 = 1 \/ b % 2 = 1 THEN 1 ELSE 0) + 2 * BitOr(a \div 2, b \div 2)

RECURSIVE BitAnd(_, _)
BitAnd(a, b) ==
    IF a = 0 \/ b = 0 THEN 0
    ELSE (IF a % 2 = 1 /\ b % 2 = 1 THEN 1 ELSE 0) + 2 * BitAnd(a \div 2, b \div 2)

\* Op applied to the value of x: x is evaluated once, before Op's body reads it
\* (the loops below thread their state through recursive operators).
Eval(Op(_), x) == CHOOSE r \in {Op(v) : v \in {x}} : TRUE

SeqsUpTo(S, n) == UNION {[1..k -> S] : k \in 0..n}

Range(s) == {s[i] : i \in DOMAIN s}

(***************************************************************************)
(* Library functions the generator calls, tabulated on the identifiers    *)
(* the model uses.                                                         *)
(***************************************************************************)
\* ast.IsExported: the identifier starts with an upper case letter.
IsExported(name) == name \notin {"age", "score"}

\* Convert(s).SnakeLow()
SnakeLow(name) ==
    CASE name = "ID" -> "id"
      [] name = "IDCode" -> "id_code"
      [] name = "Name" -> "name"
      [] name = "Score" -> "score"
      [] name = "ParentID" -> "parent_id"
      [] name = "OwnerID" -> "owner_id"
      [] name = "Users" -> "users"
      [] name = "Parents" -> "parents"
      [] name = "Owners" -> "owners"
      [] name = "Childs" -> "childs"
      [] name = "Nodes" -> "nodes"
      [] name = "GuardianID" -> "guardian_id"
      [] name = "KeeperID" -> "keeper_id"
      [] name = "SecondID" -> "second_id"
      [] name = "BadAutoIncs" -> "bad_auto_incs"
      [] name = "Unsupps" -> "unsupps"
      [] OTHER -> name

\* fmt.IDorPrimaryKey(tableName, fieldName): <<isID, isPK>>.  A field name
\* starting with "id" (any case) is an ID field; it is the primary key
\* when it is "id" alone or "id" combined with the table name.
IDorPrimaryKey(tableName, fieldName) ==
    CASE fieldName = "ID" -> <<TRUE, TRUE>>
      [] fieldName = "IDCode" -> <<TRUE, FALSE>>
      [] OTHER -> <<FALSE, FALSE>>

(***************************************************************************)
(* Syntax-tree values.                                                     *)
(***************************************************************************)
Tok(t) == [tok |-> t, parts |-> <<>>]
RefTok(p) == [tok |-> "ref=", parts |-> p]

Ident(n) == [shape |-> "Ident", name |-> n]
Selector(pkg, sel) == [shape |-> "SelectorExpr", name |-> pkg \o "." \o sel]
ArrayOf(elt) == [shape |-> "ArrayType", name |-> elt]
ArrayOfOther == [shape |-> "ArrayType", name |-> ""]
ChanType == [shape |-> "ChanType", name |-> "int"]

Field(names, typ, tag) == [names |-> names, typ |-> typ, tag |-> tag]

NoInfo ==
    [Name |-> "", TableName |-> "", PackageName |-> "", Fields |-> <<>>,
     TableNameDeclared |-> FALSE, SourceFile |-> <<>>, SliceFields |-> <<>>,
     Relations |-> <<>>]

(***************************************************************************)
(* detectTableName: the literal returned by func (X) TableName() string   *)
(* declared on structName, "" when there is none.                          *)
(***************************************************************************)
RECURSIVE detectTableNameFrom(_, _, _)
detectTableNameFrom(funcs, structName, i) ==
    IF i > Len(funcs) THEN ""
    ELSE LET fn == funcs[i]
             recvName == CASE fn.recv.shape = "Ident" -> fn.recv.name
                           [] fn.recv.shape = "StarExpr" -> fn.recv.name
                           [] OTHER -> ""
         IN  IF fn.recv.shape = "none" THEN detectTableNameFrom(funcs, structName, i + 1)
             ELSE IF fn.name # "TableName" THEN detectTableNameFrom(funcs, structName, i + 1)
             ELSE IF recvName # structName THEN detectTableNameFrom(funcs, structName, i + 1)
             ELSE IF fn.body.kind = "ReturnLit" THEN fn.body.value
             ELSE detectTableNameFrom(funcs, structName, i + 1)

detectTableName(file, structName) == detectTableNameFrom(file.funcs, structName, 1)

(***************************************************************************)
(* ParseStruct, the part of the field loop that reads one field's tag      *)
(* tokens (ormc.go 215-243).  acc = [constraints, fieldIsPK, pkFound, ref, *)
(* refCol, err].                                                           *)
(***************************************************************************)
ApplyPkToken(acc) ==
    IF ~acc.fieldIsPK
    THEN [acc EXCEPT !.constraints = BitOr(@, ConstraintPK),
                     !.fieldIsPK = TRUE, !.pkFound = TRUE]
    ELSE acc

ApplyAutoIncrementDropped(acc, fieldType) ==
    IF fieldType = TypeText
    THEN acc
    ELSE [acc EXCEPT !.constraints = BitOr(@, ConstraintAutoIncrement)]

\* an autoincrement case that assigns the flag instead of adding it
ApplyAutoIncrementLastWins(acc, fieldType) ==
    IF fieldType = TypeText
    THEN [acc EXCEPT !.err = "autoincrement not allowed on TypeText"]
    ELSE [acc EXCEPT !.constraints = ConstraintAutoIncrement]

ApplyAutoIncrement(acc, fieldType) ==
    IF fieldType = TypeText
    THEN [acc EXCEPT !.err = "autoincrement not allowed on TypeText"]
    ELSE [acc EXCEPT !.constraints = BitOr(@, ConstraintAutoIncrement)]

ApplyRef(acc, p) ==
    LET refParts == IF p.parts = <<>> THEN <<"">> ELSE p.parts
    IN  [acc EXCEPT !.ref = refParts[1],
                    !.refCol = IF Len(refParts) > 1 THEN refParts[2] ELSE @]

RECURSIVE ApplyTokens(_, _, _, _)
ApplyTokens(tagParts, i, fieldType, acc) ==
    IF i > Len(tagParts) \/ acc.err # "" THEN acc
    ELSE LET p == tagParts[i]
             next == CASE p.tok = "pk" -> ApplyPkToken(acc)
                       [] p.tok = "unique" ->
                            [acc EXCEPT !.constraints = BitOr(@, ConstraintUnique)]
                       [] p.tok = "not_null" ->
                            [acc EXCEPT !.constraints = BitOr(@, ConstraintNotNull)]
                       [] p.tok = "autoincrement" -> ApplyAutoIncrement(acc, fieldType)
                       [] p.tok = "ref=" -> ApplyRef(acc, p)
                       [] OTHER -> acc
         IN  ApplyTokens(tagParts, i + 1, fieldType, next)

(***************************************************************************)
(* ParseStruct, type mapping of one field (ormc.go 165-200).               *)
(***************************************************************************)
TypeStr(typ) ==
    CASE typ.shape = "Ident" -> typ.name
      [] typ.shape = "SelectorExpr" -> typ.name
      [] typ.shape = "ArrayType" /\ typ.name = "byte" -> "[]byte"
      [] OTHER -> ""

IntTypes == {"int", "int32", "int64", "uint", "uint32", "uint64"}
FloatTypes == {"float32", "float64"}

Mappable(typeStr) == typeStr \in ({"string", "bool", "[]byte"} \cup IntTypes \cup FloatTypes)

FieldTypeOf(typeStr) ==
    CASE typeStr = "string" -> TypeText
      [] typeStr \in IntTypes -> TypeInt64
      [] typeStr \in FloatTypes -> TypeFloat64
      [] typeStr = "bool" -> TypeBool
      [] typeStr = "[]byte" -> TypeBlob

\* the exclude test of ormc.go 150: the whole db tag is "-"
IsExcludedNever(field) == FALSE

IsExcluded(field) == field.tag = <<Tok("-")>>

\* a slice detection without the byte exception
IsSliceOfAny(field) == field.typ.shape = "ArrayType" /\ field.typ.name # ""

\* a []T field with T an identifier other than byte (ormc.go 155-156)
IsSliceOfStruct(field) ==
    field.typ.shape = "ArrayType" /\ field.typ.name # "" /\ field.typ.name # "byte"

\* a skip that tells nobody
SkipSilently(st, msg, structName, fieldName) == st

\* o.log(Sprintf("Warning: ... %s.%s ...", structName, fieldName)); continue
SkipWithWarning(st, msg, structName, fieldName) ==
    [st EXCEPT !.log = Append(@, [msg |-> msg, struct |-> structName, what |-> fieldName])]

(***************************************************************************)
(* ParseStruct, one iteration of the field loop (ormc.go 128-255).         *)
(* st = [Fields, SliceFields, pkFound, log, err].                          *)
(***************************************************************************)
ParseField(st, field, structName, tableName) ==
    IF Len(field.names) = 0 THEN st
    ELSE
    LET fieldName == field.names[1]
        typeStr == TypeStr(field.typ)
    IN
    IF ~IsExported(fieldName) THEN st
    ELSE IF IsExcluded(field) THEN st
    ELSE IF IsSliceOfStruct(field)
    THEN [st EXCEPT !.SliceFields =
             Append(@, [Name |-> fieldName, ElemType |-> field.typ.name])]
    ELSE IF typeStr = "time.Time"
    THEN SkipWithWarning(st, "time.Time not allowed", structName, fieldName)
    ELSE IF ~Mappable(typeStr)
    THEN SkipWithWarning(st, "unsupported type", structName, fieldName)
    ELSE
    LET fieldType == FieldTypeOf(typeStr)
        colName == SnakeLow(fieldName)
        id == IDorPrimaryKey(tableName, fieldName)
        auto == (id[1] \/ id[2]) /\ ~st.pkFound
        acc0 == [constraints |-> IF auto THEN BitOr(ConstraintNone, ConstraintPK)
                                 ELSE ConstraintNone,
                 fieldIsPK |-> auto,
                 pkFound |-> st.pkFound \/ auto,
                 ref |-> "", refCol |-> "", err |-> ""]
        acc == ApplyTokens(field.tag, 1, fieldType, acc0)
    IN
    IF acc.err # "" THEN [st EXCEPT !.err = acc.err]
    ELSE [st EXCEPT !.pkFound = acc.pkFound,
                    !.Fields = Append(@,
                        [Name |-> fieldName, ColumnName |-> colName,
                         Type |-> fieldType, Constraints |-> acc.constraints,
                         Ref |-> acc.ref, RefColumn |-> acc.refCol,
                         IsPK |-> acc.fieldIsPK, GoType |-> typeStr])]

RECURSIVE ParseFields(_, _, _, _, _)
ParseFields(fields, i, st, structName, tableName) ==
    IF i > Len(fields) \/ st.err # "" THEN st
    ELSE Eval(LAMBDA next : ParseFields(fields, i + 1, next, structName, tableName),
              ParseField(st, fields[i], structName, tableName))

(***************************************************************************)
(* ParseStruct (ormc.go 79-258): [err, info, log].                         *)
(***************************************************************************)
RECURSIVE FindStruct(_, _, _)
FindStruct(types, structName, i) ==
    IF i > Len(types) THEN 0
    ELSE IF types[i].name = structName /\ types[i].struct THEN i
    ELSE FindStruct(types, structName, i + 1)

Fail(e, lg) == [err |-> e, info |-> NoInfo, log |-> lg]

ParseStruct(structName, goFile, file) ==
    IF structName = "" THEN Fail("Please provide a struct name", <<>>)
    ELSE IF goFile = <<>> THEN Fail("goFile path cannot be empty", <<>>)
    ELSE IF ~file.parseOK THEN Fail("Failed to parse file", <<>>)
    ELSE
    LET k == FindStruct(file.types, structName, 1)
    IN
    IF k = 0 THEN Fail("Struct not found in file", <<>>)
    ELSE
    LET detected == detectTableName(file, structName)
        declared == detected # ""
        tableName == IF declared THEN detected ELSE SnakeLow(structName \o "s")
        st == ParseFields(file.types[k].fields, 1,
                          [Fields |-> <<>>, SliceFields |-> <<>>, pkFound |-> FALSE,
                           log |-> <<>>, err |-> ""],
                          structName, tableName)
    IN
    IF st.err # "" THEN Fail(st.err, st.log)
    ELSE [err |-> "",
          info |-> [Name |-> structName, TableName |-> tableName,
                    PackageName |-> file.pkg, Fields |-> st.Fields,
                    TableNameDeclared |-> declared, SourceFile |-> <<>>,
                    SliceFields |-> st.SliceFields, Relations |-> <<>>],
          log |-> st.log]

(***************************************************************************)
(* GenerateForFile (ormc.go 273-408).  The generated unit is kept as the   *)
(* sequence of things written to the buffer: the package clause and, per   *)
(* StructInfo, the TableName accessor (when emitted), the entries of the   *)
(* Schema, Values and Pointers bodies, the Meta descriptor, the two typed  *)
(* read helpers and the relation loaders.                                  *)
(***************************************************************************)
EmitTypeStr(t) ==
    CASE t = TypeInt64 -> "orm.TypeInt64"
      [] t = TypeFloat64 -> "orm.TypeFloat64"
      [] t = TypeBool -> "orm.TypeBool"
      [] t = TypeBlob -> "orm.TypeBlob"
      [] OTHER -> "orm.TypeText"

\* the constraint expression without the case of the empty set
EmitConstraintStrFlagsOnly(c) ==
    (IF BitAnd(c, ConstraintPK) # 0 THEN <<"orm.ConstraintPK">> ELSE <<>>)
    \o (IF BitAnd(c, ConstraintUnique) # 0 THEN <<"orm.ConstraintUnique">> ELSE <<>>)
    \o (IF BitAnd(c, ConstraintNotNull) # 0 THEN <<"orm.ConstraintNotNull">> ELSE <<>>)
    \o (IF BitAnd(c, ConstraintAutoIncrement) # 0
        THEN <<"orm.ConstraintAutoIncrement">> ELSE <<>>)

EmitConstraintStr(c) ==
    IF c = ConstraintNone THEN <<"orm.ConstraintNone">>
    ELSE (IF BitAnd(c, ConstraintPK) # 0 THEN <<"orm.ConstraintPK">> ELSE <<>>)
         \o (IF BitAnd(c, ConstraintUnique) # 0 THEN <<"orm.ConstraintUnique">> ELSE <<>>)
         \o (IF BitAnd(c, ConstraintNotNull) # 0 THEN <<"orm.ConstraintNotNull">> ELSE <<>>)
         \o (IF BitAnd(c, ConstraintAutoIncrement) # 0
             THEN <<"orm.ConstraintAutoIncrement">> ELSE <<>>)

EmitSchema(info) ==
    [i \in 1..Len(info.Fields) |->
        LET f == info.Fields[i]
        IN  [Name |-> f.ColumnName, Type |-> EmitTypeStr(f.Type),
             Constraints |-> EmitConstraintStr(f.Constraints),
             Ref |-> f.Ref, RefColumn |-> f.RefColumn]]

EmitValues(info) == [i \in 1..Len(info.Fields) |-> "m." \o info.Fields[i].Name]

\* a Pointers loop that leaves the primary key out
EmitPointersSkipPK(info) ==
    LET keep == SelectSeq(info.Fields, LAMBDA f : ~f.IsPK)
    IN  [i \in 1..Len(keep) |-> "&m." \o keep[i].Name]

EmitPointers(info) == [i \in 1..Len(info.Fields) |-> "&m." \o info.Fields[i].Name]

EmitMeta(info) ==
    [TableName |-> info.TableName,
     fields |-> [i \in 1..Len(info.Fields) |->
                    [field |-> info.Fields[i].Name, value |-> info.Fields[i].ColumnName]]]

EmitLoaders(info) ==
    [i \in 1..Len(info.Relations) |->
        LET rel == info.Relations[i]
        IN  [func |-> "ReadAll" \o rel.ChildStruct \o "By" \o rel.FKField,
             parentTable |-> info.TableName,
             paramType |-> rel.FKFieldType,
             returns |-> rel.ChildStruct,
             where |-> rel.ChildStruct \o "Meta." \o rel.FKField]]

EmitStruct(info) ==
    [name |-> info.Name,
     tableName |-> IF ~info.TableNameDeclared THEN <<info.TableName>> ELSE <<>>,
     schema |-> EmitSchema(info),
     values |-> EmitValues(info),
     pointers |-> EmitPointers(info),
     meta |-> EmitMeta(info),
     readers |-> <<"ReadOne" \o info.Name, "ReadAll" \o info.Name>>,
     loaders |-> EmitLoaders(info)]

EmitUnit(infos) ==
    [package |-> infos[1].PackageName,
     structs |-> [i \in 1..Len(infos) |-> EmitStruct(infos[i])]]

\* A path is [dir, base, ext]; the file name is base \o ext.
Path(d, b, e) == [dir |-> d, base |-> b, ext |-> e]
FileName(path) == path.base \o path.ext

\* Convert(sourceFile).TrimSuffix(".go").String() + "_orm.go"
OutName(sourceFile) ==
    IF sourceFile.ext = ".go"
    THEN [sourceFile EXCEPT !.base = @ \o "_orm"]
    ELSE [sourceFile EXCEPT !.base = @ \o sourceFile.ext \o "_orm", !.ext = ".go"]

\* os.WriteFile(outName, data, 0644) that appends to what the file held
WriteFileAppend(files, ro, outName, data) ==
    IF outName \in ro THEN [err |-> "write failed", disk |-> files]
    ELSE IF outName \in DOMAIN files
    THEN [err |-> "",
          disk |-> [files EXCEPT ![outName] =
                      [package |-> data.package, structs |-> @.structs \o data.structs]]]
    ELSE [err |-> "", disk |-> (outName :> data) @@ files]

\* os.WriteFile(outName, data, 0644): creates or truncates the file
WriteFile(files, ro, outName, data) ==
    IF outName \in ro THEN [err |-> "write failed", disk |-> files]
    ELSE [err |-> "", disk |-> (outName :> data) @@ files]

\* [err, disk]: the error returned and the files afterwards
GenerateForFile(infos, sourceFile, files, ro) ==
    IF Len(infos) = 0 THEN [err |-> "", disk |-> files]
    ELSE WriteFile(files, ro, OutName(sourceFile), EmitUnit(infos))

\* GenerateForStruct (ormc.go 261-270): [err, disk, log]
GenerateForStruct(structName, goFile, file, files, ro) ==
    LET r == ParseStruct(structName, goFile, file)
    IN  IF r.err # "" THEN [err |-> r.err, disk |-> files, log |-> r.log]
        ELSE IF Len(r.info.Fields) = 0 THEN [err |-> "", disk |-> files, log |-> r.log]
        ELSE LET g == GenerateForFile(<<r.info>>, goFile, files, ro)
             IN  [err |-> g.err, disk |-> g.disk, log |-> r.log]

(***************************************************************************)
(* Inputs of the ParseStruct / GenerateForFile specification: one source   *)
(* file declaring the struct User with up to MaxFields fields.             *)
(***************************************************************************)
TagPool ==
    {<<>>, <<Tok("-")>>, <<Tok("pk")>>, <<Tok("autoincrement")>>,
     <<Tok("pk"), Tok("autoincrement")>>,
     <<Tok("unique"), Tok("autoincrement"), Tok("not_null")>>,
     <<RefTok(<<"parents">>)>>, <<RefTok(<<"parents", "id">>)>>}

OtherTypes ==
    {Ident("float64"), Ident("bool"), ArrayOf("byte"), Selector("time", "Time"),
     ChanType, ArrayOf("Child"), ArrayOf("string")}

FieldPool ==
    {Field(<<n>>, Ident(t), g) : n \in {"ID", "IDCode", "Name"}, t \in {"string", "int64"},
                                   g \in TagPool}
    \cup {Field(<<"Score">>, t, g) :
            t \in OtherTypes, g \in {<<>>, <<Tok("-")>>, <<Tok("autoincrement")>>}}
    \cup {Field(<<"age">>, Ident("string"), <<Tok("autoincrement")>>),
          Field(<<>>, Ident("Base"), <<>>)}

\* the predeclared Go types a field can have, by kind
PredeclaredInts ==
    {"int", "int8", "int16", "int32", "int64",
     "uint", "uint8", "uint16", "uint32", "uint64", "uintptr", "byte", "rune"}
PredeclaredFloats == {"float32", "float64"}
Predeclared == PredeclaredInts \cup PredeclaredFloats \cup {"string", "bool"}

\* declarations with a key and one numeric field of every width
NumericDecls ==
    {<<Field(<<"ID">>, Ident("int64"), <<>>), Field(<<"Score">>, Ident(t), g)>> :
        t \in PredeclaredInts \cup PredeclaredFloats, g \in {<<>>, <<Tok("unique")>>}}

\* declarations whose second field carries two foreign-key tokens, or one
RefTags ==
    {<<RefTok(<<"parents", "id">>), RefTok(<<"owners">>)>>,
     <<RefTok(<<"owners">>), RefTok(<<"parents", "id">>)>>,
     <<RefTok(<<"parents">>), RefTok(<<"owners">>)>>,
     <<RefTok(<<"parents", "id">>), RefTok(<<"owners", "code">>)>>,
     <<RefTok(<<"parents", "id">>), Tok("not_null")>>,
     <<Tok("unique"), RefTok(<<"owners">>)>>}

RefDecls ==
    {<<Field(<<"ID">>, Ident("int64"), <<>>), Field(<<"ParentID">>, Ident("int64"), g)>> :
        g \in RefTags}

\* declarations of one field whose attribute is any sequence of up to
\* MaxTokens constraint tokens
ConstraintTokens == {Tok("pk"), Tok("unique"), Tok("not_null"), Tok("autoincrement")}

TokenDecls ==
    {<<Field(<<n>>, Ident(t), g)>> :
        n \in {"ID", "Name"}, t \in {"int64", "string"},
        g \in SeqsUpTo(ConstraintTokens, MaxTokens)}

\* declarations with a field that declares two names (Name, Score T)
MultiNameDecls ==
    {<<Field(<<"ID">>, Ident("int64"), <<>>), Field(<<"Name", "Score">>, Ident(t), g)>> :
        t \in {"string", "int64"}, g \in {<<>>, <<Tok("unique")>>}}

\* declarations with a key and one field declaration of a sequence type:
\* one name or two, exported or not, with and without the exclude attribute
SliceDecls ==
    {<<Field(<<"ID">>, Ident("int64"), <<>>), Field(n, ArrayOf(t), g)>> :
        n \in {<<"Kids">>, <<"Kids", "Pets">>, <<"score">>},
        t \in {"Child", "string", "byte"}, g \in {<<>>, <<Tok("-")>>}}

ModelGo == Path("tests", "mock_generator_model", ".go")

Func(recvShape, recvName, name, kind, value) ==
    [recv |-> [shape |-> recvShape, name |-> recvName], name |-> name,
     body |-> [kind |-> kind, value |-> value]]

FuncPool ==
    {<<Func("Ident", "User", "TableName", "ReturnLit", "members")>>,
     <<Func("StarExpr", "User", "TableName", "ReturnLit", "members")>>,
     <<Func("Ident", "User", "TableName", "Other", "")>>,
     <<Func("Ident", "Other", "TableName", "ReturnLit", "others")>>,
     <<Func("none", "", "TableName", "ReturnLit", "free")>>,
     <<Func("Ident", "User", "String", "ReturnLit", "text")>>}

\* lstat: whether filepath.Walk can stat the entry; parseOK: whether
\* parser.ParseFile accepts the file
SourceFile(path, ok, types, funcs) ==
    [path |-> path, lstat |-> TRUE, parseOK |-> ok, pkg |-> "tests", types |-> types,
     funcs |-> funcs]

StructDecl(name, fields) == [name |-> name, struct |-> TRUE, fields |-> fields]
TypeDecl(name) == [name |-> name, struct |-> FALSE, fields |-> <<>>]

SomeFields == <<Field(<<"ID">>, Ident("string"), <<>>),
                Field(<<"Name">>, Ident("string"), <<Tok("unique")>>)>>

ParseInputs ==
    {[node |-> SourceFile(ModelGo, TRUE, <<StructDecl("User", fs)>>, <<>>), target |-> "User"] :
        fs \in SeqsUpTo(FieldPool, MaxFields) \cup NumericDecls \cup RefDecls
                    \cup TokenDecls \cup MultiNameDecls \cup SliceDecls}
    \cup {[node |-> SourceFile(ModelGo, TRUE, <<StructDecl("User", SomeFields)>>, fn),
           target |-> "User"] : fn \in FuncPool}
    \cup {[node |-> SourceFile(ModelGo, TRUE,
                               <<TypeDecl("User"), StructDecl("User", SomeFields)>>, <<>>),
           target |-> t] : t \in {"User", "", "Missing"}}
    \cup {[node |-> SourceFile(ModelGo, FALSE, <<>>, <<>>), target |-> "User"],
          [node |-> SourceFile(<<>>, TRUE, <<StructDecl("User", SomeFields)>>, <<>>),
           target |-> "User"]}

\* DB.Tx not called: db.exec, where Tx stands, the calls made on the
\* executors and fn during the current call, fn's error, the executor of
\* the DB handed to fn, the outcomes of BeginTx and Commit, the number of
\* calls of Tx and what they returned
NoTx ==
    [exec |-> "Executor", pos |-> "idle", trace |-> <<>>, fnErr |-> "", fnExec |-> "",
     beginErr |-> "", commitErr |-> "", n |-> 0, results |-> <<>>]

\* A nil error; errors are the sequences of their parts, so that a wrapped
\* error keeps the error it wraps in front
Nil == <<>>

\* MockModel{}: Table, Cols and Vals are the results of TableName(),
\* Columns() and Values()
NoModel == [Table |-> "", Cols |-> <<>>, Vals |-> <<>>]

\* Query{}: the zero value of every field
NoQuery ==
    [Action |-> "", Table |-> "", Columns |-> <<>>, Values |-> <<>>, Conditions |-> <<>>,
     OrderBy |-> <<>>, GroupBy |-> <<>>, Limit |-> 0, Offset |-> 0]

\* &QB{}: no db.Query(m) yet
NoQB ==
    [model |-> NoModel, conds |-> <<>>, orderBy |-> <<>>, groupBy |-> <<>>,
     limit |-> 0, offset |-> 0, nextOr |-> FALSE]

\* the mocks as constructed: no error to return, no row to deliver
NoEnv ==
    [compileErr |-> Nil, execErr |-> Nil, queryErr |-> Nil, scanErr |-> Nil,
     rows |-> [Count |-> 0, ScanErrAt |-> 0, ErrVal |-> Nil]]

\* no operation of DB or QB called yet
NoLast ==
    [action |-> "", model |-> NoModel, env |-> NoEnv, ret |-> Nil, trace |-> <<>>,
     query |-> NoQuery]

Runtime == <<qb, clause, chain, last>>

RuntimeIdle ==
    /\ qb = NoQB
    /\ clause = <<>>
    /\ chain = <<>>
    /\ last = NoLast

NoRet == [err |-> "", info |-> NoInfo]
NoNode == SourceFile(<<>>, FALSE, <<>>, <<>>)

(***************************************************************************)
(* Specification Spec: a caller parses the struct and generates its unit,  *)
(* as the tests do (ParseStruct then GenerateForFile, or GenerateForStruct *)
(* in one call).                                                           *)
(***************************************************************************)
Init ==
    /\ \E in \in ParseInputs : node = in.node /\ target = in.target
    /\ ret = NoRet
    /\ log = <<>>
    /\ disk = <<>>
    /\ pc = "start"
    /\ all = <<>>
    /\ iter = <<>>
    /\ tree = <<>>
    /\ readonly = {}
    /\ runs = 0
    /\ runRet = ""
    /\ calls = <<>>
    /\ tx = NoTx
    /\ RuntimeIdle

ParseStructCall ==
    /\ pc = "start"
    /\ LET r == ParseStruct(target, node.path, node)
       IN  /\ ret' = [err |-> r.err, info |-> r.info]
           /\ log' = log \o r.log
    /\ pc' = "parsed"
    /\ UNCHANGED <<node, target, disk, all, iter, tree, readonly, runs, runRet, calls, tx, Runtime>>

GenerateForFileCall ==
    /\ pc = "parsed"
    /\ ret.err = ""
    /\ LET g == GenerateForFile(<<ret.info>>, node.path, disk, readonly)
       IN  disk' = g.disk
    /\ pc' = "generated"
    /\ UNCHANGED <<node, target, ret, log, all, iter, tree, readonly, runs, runRet, calls, tx, Runtime>>

GenerateForStructCall ==
    /\ pc = "start"
    /\ LET r == ParseStruct(target, node.path, node)
           g == GenerateForStruct(target, node.path, node, disk, readonly)
       IN  /\ ret' = [err |-> g.err, info |-> r.info]
           /\ log' = log \o g.log
           /\ disk' = g.disk
    /\ pc' = "generated"
    /\ UNCHANGED <<node, target, all, iter, tree, readonly, runs, runRet, calls, tx, Runtime>>

Next == ParseStructCall \/ GenerateForFileCall \/ GenerateForStructCall

Spec == Init /\ [][Next]_vars

(***************************************************************************)
(* Claims about ParseStruct and GenerateForFile, checked under Spec.       *)
(***************************************************************************)
\* the declaration ParseStruct looks at, <<>> when there is none
TargetFields ==
    LET k == FindStruct(node.types, target, 1)
    IN  IF k = 0 THEN <<>> ELSE node.types[k].fields

Parsable == target # "" /\ node.path # <<>> /\ node.parseOK /\ FindStruct(node.types, target, 1) # 0

Returned == pc \in {"parsed", "generated"}

GeneratedUnits == {disk[p] : p \in DOMAIN disk}

\* C1: every declaration written by GenerateForFile has exactly one Schema,
\* one Values and one Pointers entry per element of its Fields list, the i-th
\* entry of each naming the i-th field, and its Meta descriptor lists the
\* same fields in the same order.
C1_ParallelAccessors ==
    (pc = "generated" /\ ret.err = "") =>
        \A u \in GeneratedUnits : \A k \in DOMAIN u.structs :
            LET e == u.structs[k]
                F == ret.info.Fields
            IN  /\ e.name = ret.info.Name
                /\ Len(e.schema) = Len(F)
                /\ Len(e.values) = Len(F)
                /\ Len(e.pointers) = Len(F)
                /\ Len(e.meta.fields) = Len(F)
                /\ \A i \in DOMAIN F :
                      /\ e.schema[i].Name = F[i].ColumnName
                      /\ e.values[i] = "m." \o F[i].Name
                      /\ e.pointers[i] = "&m." \o F[i].Name
                      /\ e.meta.fields[i] = [field |-> F[i].Name, value |-> F[i].ColumnName]

C1_Witness ==
    /\ pc = "generated"
    /\ ret.err = ""
    /\ OutName(node.path) \in DOMAIN disk
    /\ Len(ret.info.Fields) = 2
    /\ ret.info.Fields[1].IsPK
    /\ ret.info.Fields[1].Name # ret.info.Fields[2].Name
    /\ Len(TargetFields) = 2

\* C2: after ParseStruct succeeds at most one field of the declaration is
\* marked primary (IsPK, ConstraintPK bit).
C2_AtMostOnePrimary ==
    (Returned /\ ret.err = "") =>
        Cardinality({i \in DOMAIN ret.info.Fields :
                        \/ ret.info.Fields[i].IsPK
                        \/ BitAnd(ret.info.Fields[i].Constraints, ConstraintPK) # 0}) <= 1

\* C3: a field whose db tag is "-" never appears in Fields, whatever its
\* type, and causes no diagnostic: the result and the log are those of the
\* declaration without its excluded fields, and no entry or message names an
\* excluded field.
WithoutExcluded(file) ==
    [file EXCEPT !.types =
        [k \in DOMAIN file.types |->
            [file.types[k] EXCEPT !.fields =
                SelectSeq(@, LAMBDA f : f.tag # <<[tok |-> "-", parts |-> <<>>]>>)]]]

ExcludedNames ==
    {f.names[1] : f \in {g \in Range(TargetFields) :
                            g.names # <<>> /\ g.tag = <<[tok |-> "-", parts |-> <<>>]>>}}

OtherNames ==
    {f.names[1] : f \in {g \in Range(TargetFields) :
                            g.names # <<>> /\ g.tag # <<[tok |-> "-", parts |-> <<>>]>>}}

C3_ExcludedNeverMapped ==
    pc = "parsed" =>
        /\ LET r == ParseStruct(target, node.path, WithoutExcluded(node))
           IN  ret.err = r.err /\ ret.info = r.info /\ log = r.log
        /\ \A n \in ExcludedNames \ OtherNames :
              /\ \A i \in DOMAIN ret.info.Fields : ret.info.Fields[i].Name # n
              /\ \A i \in DOMAIN log : log[i].what # n

C3_Witness ==
    /\ pc = "parsed"
    /\ ret.err = ""
    /\ Len(TargetFields) = 2
    /\ TargetFields[1].tag = <<Tok("-")>>
    /\ TargetFields[1].typ = Selector("time", "Time")
    /\ Len(ret.info.Fields) = 1
    /\ log = <<>>

\* C4: ParseStruct on a declaration with an exported, non-excluded string
\* field carrying the autoincrement token returns the autoincrement error
\* and an empty StructInfo, wherever the field sits and whatever tokens come
\* with it.
HasTextAutoIncrement ==
    \E i \in DOMAIN TargetFields :
        LET f == TargetFields[i]
        IN  /\ f.names # <<>>
            /\ f.names[1] \notin {"age", "score"}
            /\ f.tag # <<[tok |-> "-", parts |-> <<>>]>>
            /\ f.typ = [shape |-> "Ident", name |-> "string"]
            /\ \E j \in DOMAIN f.tag : f.tag[j].tok = "autoincrement"

C4_TextAutoIncrementFails ==
    (Returned /\ Parsable /\ HasTextAutoIncrement) =>
        /\ ret.err = "autoincrement not allowed on TypeText"
        /\ ret.info = NoInfo
        /\ disk = <<>>

C4_Witness ==
    /\ pc = "parsed"
    /\ Len(TargetFields) = 2
    /\ TargetFields[1] = Field(<<"ID">>, Ident("int64"), <<Tok("pk"), Tok("autoincrement")>>)
    /\ TargetFields[2] = Field(<<"Name">>, Ident("string"),
                               <<Tok("unique"), Tok("autoincrement"), Tok("not_null")>>)
    /\ ret.err = "autoincrement not allowed on TypeText"
    /\ ret.info = NoInfo

\* The native categories of the Type Mapping Table, read off the field's type
\* expression.
NativeCategory(typ) ==
    CASE typ.shape = "Ident" /\ typ.name = "string" -> "text"
      [] typ.shape = "Ident" /\ typ.name \in PredeclaredInts -> "integer"
      [] typ.shape = "Ident" /\ typ.name \in PredeclaredFloats -> "float"
      [] typ.shape = "Ident" /\ typ.name = "bool" -> "boolean"
      [] typ.shape = "ArrayType" /\ typ.name \in {"byte", "uint8"} -> "bytes"
      [] typ.shape = "SelectorExpr" /\ typ.name = "time.Time" -> "datetime"
      [] typ.shape = "ArrayType" /\ typ.name # "" /\ typ.name \notin Predeclared -> "records"
      [] OTHER -> "other"

\* a named, exported field without the exclude attribute
Candidate(f) ==
    /\ f.names # <<>>
    /\ f.names[1] \notin {"age", "score"}
    /\ f.tag # <<[tok |-> "-", parts |-> <<>>]>>

Unmappable(f) == Candidate(f) /\ NativeCategory(f.typ) \in {"datetime", "other"}

\* the names a declaration uses for one field only
UniqueNames ==
    {n \in UNION {Range(TargetFields[i].names) : i \in DOMAIN TargetFields} :
        Cardinality({i \in DOMAIN TargetFields : n \in Range(TargetFields[i].names)}) = 1}

WithoutUnmappable(file) ==
    [file EXCEPT !.types =
        [k \in DOMAIN file.types |->
            [file.types[k] EXCEPT !.fields = SelectSeq(@, LAMBDA f : ~Unmappable(f))]]]

\* C11: a named, exported, non-excluded field of the date/time type or of a
\* type outside the mapping table has no entry in Fields and a warning in
\* the log naming it, and the error and the Fields returned are those of the
\* declaration without such fields.
C11_UnmappableWarnedAndSkipped ==
    (pc = "parsed" /\ Parsable) =>
        /\ \E r \in {ParseStruct(target, node.path, WithoutUnmappable(node))} :
              ret.err = r.err /\ ret.info.Fields = r.info.Fields
        /\ ret.err = "" =>
              \A i \in DOMAIN TargetFields :
                  (Unmappable(TargetFields[i]) /\ TargetFields[i].names[1] \in UniqueNames) =>
                      /\ \A k \in DOMAIN ret.info.Fields :
                            ret.info.Fields[k].Name # TargetFields[i].names[1]
                      /\ \E k \in DOMAIN log :
                            /\ log[k].what = TargetFields[i].names[1]
                            /\ log[k].msg \in {"time.Time not allowed", "unsupported type"}

\* the storage type the Type Mapping Table gives a native category
StorageOf(category) ==
    CASE category = "text" -> TypeText
      [] category = "integer" -> TypeInt64
      [] category = "float" -> TypeFloat64
      [] category = "boolean" -> TypeBool
      [] category = "bytes" -> TypeBlob

\* C12: after ParseStruct succeeds every named, exported, non-excluded field
\* of a string, integer (any width), float (any width), bool or byte-sequence
\* type has an entry in Fields whose storage type is the one of the table.
C12_TypeMappingTable ==
    (pc = "parsed" /\ Parsable /\ ret.err = "") =>
        \A i \in DOMAIN TargetFields :
            (/\ Candidate(TargetFields[i])
             /\ TargetFields[i].names[1] \in UniqueNames
             /\ NativeCategory(TargetFields[i].typ)
                    \in {"text", "integer", "float", "boolean", "bytes"}) =>
                \E k \in DOMAIN ret.info.Fields :
                    /\ ret.info.Fields[k].Name = TargetFields[i].names[1]
                    /\ ret.info.Fields[k].Type = StorageOf(NativeCategory(TargetFields[i].typ))

\* the source file declares a method TableName with receiver target or *target
HasTableNameMethod ==
    \E i \in DOMAIN node.funcs :
        /\ node.funcs[i].name = "TableName"
        /\ node.funcs[i].recv.shape \in {"Ident", "StarExpr"}
        /\ node.funcs[i].recv.name = target

\* C13: after ParseStruct succeeds the declaration is marked author-declared
\* exactly when the file declares a TableName method on the type (value or
\* pointer receiver), and a unit generated for it holds no TableName accessor
\* when the method exists and one accessor when it does not.
C13_TableNameNotDuplicated ==
    (Returned /\ Parsable /\ ret.err = "") =>
        /\ ret.info.TableNameDeclared <=> HasTableNameMethod
        /\ \A u \in GeneratedUnits : \A k \in DOMAIN u.structs :
              Len(u.structs[k].tableName) = IF HasTableNameMethod THEN 0 ELSE 1

\* a candidate field of one of the given categories carries autoincrement
AutoIncrementOn(categories) ==
    \E i \in DOMAIN TargetFields :
        /\ Candidate(TargetFields[i])
        /\ NativeCategory(TargetFields[i].typ) \in categories
        /\ \E j \in DOMAIN TargetFields[i].tag : TargetFields[i].tag[j].tok = "autoincrement"

\* C14: ParseStruct fails when a string, bool or byte-sequence field carries
\* the autoincrement token, and in a successful result only 64-bit integer
\* and 64-bit float fields have the auto-increment flag.
C14_AutoIncrementNumericOnly ==
    (Returned /\ Parsable) =>
        /\ AutoIncrementOn({"text", "boolean", "bytes"}) => ret.err # ""
        /\ ret.err = "" =>
              \A k \in DOMAIN ret.info.Fields :
                  BitAnd(ret.info.Fields[k].Constraints, ConstraintAutoIncrement) # 0 =>
                      ret.info.Fields[k].Type \in {TypeInt64, TypeFloat64}

\* the foreign-key tokens of a field's attribute, in order
RefToks(f) == SelectSeq(f.tag, LAMBDA t : t.tok = "ref=")

\* C15: in the entry of a mapped field, without a ref token target table and
\* column are unset; with one token ref=<table> the table is set and the
\* column unset, with ref=<table>:<column> both are set; with several, the
\* table is that of one of them and a non-empty column is the column segment
\* of a token naming that table.
C15_RefColumnFromItsToken ==
    (pc = "parsed" /\ Parsable /\ ret.err = "") =>
        \A i \in DOMAIN TargetFields : \A k \in DOMAIN ret.info.Fields :
            (/\ Candidate(TargetFields[i])
             /\ TargetFields[i].names[1] \in UniqueNames
             /\ ret.info.Fields[k].Name = TargetFields[i].names[1]) =>
                LET refs == RefToks(TargetFields[i])
                    e == ret.info.Fields[k]
                IN  /\ Len(refs) = 0 => (e.Ref = "" /\ e.RefColumn = "")
                    /\ Len(refs) = 1 =>
                          /\ e.Ref = refs[1].parts[1]
                          /\ e.RefColumn = IF Len(refs[1].parts) > 1
                                            THEN refs[1].parts[2] ELSE ""
                    /\ Len(refs) >= 1 =>
                          /\ \E j \in DOMAIN refs : e.Ref = refs[j].parts[1]
                          /\ e.RefColumn # "" =>
                                \E j \in DOMAIN refs :
                                    /\ refs[j].parts[1] = e.Ref
                                    /\ Len(refs[j].parts) > 1
                                    /\ refs[j].parts[2] = e.RefColumn

\* the flag of a constraint token
FlagOf(t) ==
    CASE t.tok = "pk" -> ConstraintPK
      [] t.tok = "unique" -> ConstraintUnique
      [] t.tok = "not_null" -> ConstraintNotNull
      [] t.tok = "autoincrement" -> ConstraintAutoIncrement
      [] OTHER -> ConstraintNone

RECURSIVE OrFlags(_)
OrFlags(tag) == IF tag = <<>> THEN ConstraintNone ELSE BitOr(FlagOf(Head(tag)), OrFlags(Tail(tag)))

\* the attributes that hold the tokens of tag in another order, or one of
\* them once more
Permuted(tag) ==
    {[j \in DOMAIN tag |-> tag[p[j]]] :
        p \in {q \in [DOMAIN tag -> DOMAIN tag] : Range(q) = DOMAIN tag}}

Repeated(tag) == {Append(tag, tag[j]) : j \in DOMAIN tag} \cup {<<tag[j]>> \o tag : j \in DOMAIN tag}

\* file with the attribute of the i-th field of the target declaration replaced
WithTag(file, i, tag) ==
    [file EXCEPT !.types[FindStruct(file.types, target, 1)].fields[i].tag = tag]

OnlyConstraintTokens(tag) ==
    \A j \in DOMAIN tag : tag[j].tok \in {"pk", "unique", "not_null", "autoincrement"}

\* C16: for a field whose attribute holds only pk, unique, not_null and
\* autoincrement tokens, ParseStruct returns the same error and the same
\* Fields when the tokens are permuted or one is repeated, and the bitmask of
\* the field's entry is the OR of the flags of its tokens, with the primary
\* flag added when the field is claimed by auto-detection (an ID name and no
\* earlier primary field).
C16_ConstraintsOrderIndependent ==
    (pc = "parsed" /\ Parsable) =>
        \A i \in DOMAIN TargetFields :
            OnlyConstraintTokens(TargetFields[i].tag) =>
                /\ \A g \in Permuted(TargetFields[i].tag) \cup Repeated(TargetFields[i].tag) :
                      \E r \in {ParseStruct(target, node.path, WithTag(node, i, g))} :
                          r.err = ret.err /\ r.info.Fields = ret.info.Fields
                /\ \A k \in DOMAIN ret.info.Fields :
                      (/\ ret.err = ""
                       /\ TargetFields[i].names # <<>>
                       /\ TargetFields[i].names[1] \in UniqueNames
                       /\ ret.info.Fields[k].Name = TargetFields[i].names[1]) =>
                          LET id == IDorPrimaryKey(ret.info.TableName, ret.info.Fields[k].Name)
                              auto == (id[1] \/ id[2])
                                      /\ \A h \in 1..(k - 1) : ~ret.info.Fields[h].IsPK
                          IN  ret.info.Fields[k].Constraints =
                                  BitOr(OrFlags(TargetFields[i].tag),
                                        IF auto THEN ConstraintPK ELSE ConstraintNone)

C16_Witness ==
    /\ pc = "parsed"
    /\ ret.err = ""
    /\ TargetFields = <<Field(<<"ID">>, Ident("int64"),
                               <<Tok("autoincrement"), Tok("not_null"), Tok("unique")>>)>>
    /\ Len(ret.info.Fields) = 1
    /\ ret.info.Fields[1].Constraints = 15

\* every name of the declaration is declared once
ValidDecl ==
    \A i, j \in DOMAIN TargetFields :
        \A a \in DOMAIN TargetFields[i].names, b \in DOMAIN TargetFields[j].names :
            TargetFields[i].names[a] = TargetFields[j].names[b] => (i = j /\ a = b)

\* the names of the fields of the declaration that are mapped: exported, not
\* excluded, of a type the type switch maps; in declaration order
RECURSIVE MappedNames(_, _)
MappedNames(fields, i) ==
    IF i > Len(fields) THEN <<>>
    ELSE (IF fields[i].tag # <<[tok |-> "-", parts |-> <<>>]>>
             /\ ~IsSliceOfStruct(fields[i]) /\ Mappable(TypeStr(fields[i].typ))
          THEN SelectSeq(fields[i].names, LAMBDA n : n \notin {"age", "score"})
          ELSE <<>>) \o MappedNames(fields, i + 1)

\* C18: after ParseStruct succeeds on a declaration, the names of the entries
\* of Fields are the names of its mapped fields, each once, in declaration
\* order, and no two entries have the same column name.
C18_OneEntryPerMappedField ==
    (pc = "parsed" /\ Parsable /\ ret.err = "" /\ ValidDecl) =>
        /\ [k \in DOMAIN ret.info.Fields |-> ret.info.Fields[k].Name]
               = MappedNames(TargetFields, 1)
        /\ \A h, k \in DOMAIN ret.info.Fields :
              ret.info.Fields[h].ColumnName = ret.info.Fields[k].ColumnName => h = k

\* a field declaration whose type is a sequence of a named type other than
\* byte
SequenceOfNamed(f) == f.typ.shape = "ArrayType" /\ f.typ.name \notin {"", "byte"}

Excluded(f) == f.tag = <<[tok |-> "-", parts |-> <<>>]>>

SliceEntry(f) == [Name |-> f.names[1], ElemType |-> f.typ.name]

DeclaredNames ==
    {x \in (DOMAIN TargetFields) \X UniqueNames : x[2] \in Range(TargetFields[x[1]].names)}

InFields(n) == \E k \in DOMAIN ret.info.Fields : ret.info.Fields[k].Name = n

Warned(n) == \E k \in DOMAIN log : log[k].what = n

ConstraintValue(name) ==
    CASE name = "orm.ConstraintNone" -> ConstraintNone
      [] name = "orm.ConstraintPK" -> ConstraintPK
      [] name = "orm.ConstraintUnique" -> ConstraintUnique
      [] name = "orm.ConstraintNotNull" -> ConstraintNotNull
      [] name = "orm.ConstraintAutoIncrement" -> ConstraintAutoIncrement

FlagNames ==
    {"orm.ConstraintPK", "orm.ConstraintUnique", "orm.ConstraintNotNull",
     "orm.ConstraintAutoIncrement"}

\* the value of the expression `a | b | ...` whose operands are named by expr
RECURSIVE ValueOf(_)
ValueOf(expr) ==
    IF expr = <<>> THEN 0 ELSE BitOr(ConstraintValue(Head(expr)), ValueOf(Tail(expr)))

\* the flags set in the bitmask c, by name
FlagsOf(c) == {name \in FlagNames : BitAnd(c, ConstraintValue(name)) # 0}

\* the Schema entries of the generated units with the field each was emitted
\* for: <<entry, field>>
EmittedEntries ==
    {<<u.structs[1].schema[k], ret.info.Fields[k]>> :
        u \in GeneratedUnits, k \in DOMAIN ret.info.Fields}

\* C30: the constraint expression of every emitted Schema entry evaluates to
\* the bitmask of its field; it is ConstraintNone alone for the empty set
\* and otherwise names exactly the flags of the set, each once; and two
\* expressions that name different sets of flags have different values.
C30_ConstraintExpression ==
    (pc = "generated" /\ ret.err = "") =>
        /\ \A x \in EmittedEntries :
              LET expr == x[1].Constraints
                  c == x[2].Constraints
              IN  /\ Len(expr) > 0
                  /\ ValueOf(expr) = c
                  /\ c = ConstraintNone <=> expr = <<"orm.ConstraintNone">>
                  /\ c # ConstraintNone =>
                        /\ Range(expr) = FlagsOf(c)
                        /\ Len(expr) = Cardinality(FlagsOf(c))
        /\ \A x, y \in EmittedEntries :
              Range(x[1].Constraints) # Range(y[1].Constraints) =>
                  ValueOf(x[1].Constraints) # ValueOf(y[1].Constraints)
        /\ \A x \in EmittedEntries :
              \A w \in 0..15 :
                  w # x[2].Constraints =>
                      ValueOf(EmitConstraintStr(w)) # ValueOf(x[1].Constraints)

C30_Witness ==
    /\ pc = "generated"
    /\ ret.err = ""
    /\ \E x \in EmittedEntries :
          /\ x[2].Constraints = 5
          /\ x[1].Constraints = <<"orm.ConstraintPK", "orm.ConstraintNotNull">>
          /\ ValueOf(x[1].Constraints) = 5

(***************************************************************************)
(* ResolveRelations and findFKField (relation resolver).                   *)
(***************************************************************************)
\* The struct names of the model in the order of Go's string comparison.
NameOrder == <<"BadAutoInc", "Child", "Node", "Owner", "Parent", "Unsupp", "User">>

RankOf(name) == CHOOSE i \in DOMAIN NameOrder : NameOrder[i] = name

StrLess(a, b) == RankOf(a) < RankOf(b)

RECURSIVE InsertSorted(_, _)
InsertSorted(sorted, x) ==
    IF sorted = <<>> THEN <<x>>
    ELSE IF StrLess(x, Head(sorted)) THEN <<x>> \o sorted
    ELSE <<Head(sorted)>> \o InsertSorted(Tail(sorted), x)

RECURSIVE SortFrom(_, _, _)
SortFrom(names, i, sorted) ==
    IF i > Len(names) THEN sorted
    ELSE SortFrom(names, i + 1, InsertSorted(sorted, names[i]))

\* a resolver that keeps the order `range all` produced
SortStringsOmitted(names) == names

\* sort.Strings(parentNames)
SortStrings(names) == SortFrom(names, 1, <<>>)

RECURSIVE findFKFieldFrom(_, _, _)
findFKFieldFrom(fields, parentTable, i) ==
    IF i > Len(fields) THEN 0
    ELSE IF fields[i].Ref = parentTable THEN i
    ELSE findFKFieldFrom(fields, parentTable, i + 1)

\* a search that returns the last field of child whose Ref is parentTable
findFKFieldLast(child, parentTable) ==
    IF \A k \in DOMAIN child.Fields : child.Fields[k].Ref # parentTable THEN 0
    ELSE CHOOSE k \in DOMAIN child.Fields :
            /\ child.Fields[k].Ref = parentTable
            /\ \A h \in DOMAIN child.Fields : child.Fields[h].Ref = parentTable => h <= k

\* index of the first field of child whose Ref is parentTable, 0 for nil
findFKField(child, parentTable) == findFKFieldFrom(child.Fields, parentTable, 1)

Relation(childStructName, fkField) ==
    [ChildStruct |-> childStructName,
     FKField |-> fkField.Name,
     FKColumn |-> fkField.ColumnName,
     LoaderName |-> "ReadAll" \o childStructName \o "By" \o fkField.Name,
     FKFieldType |-> fkField.GoType]

\* a resolver that records the relation on the parent
AttachToParent(m, parentName, childStructName, rel) ==
    [m EXCEPT ![parentName].Relations = Append(@, rel)]

\* a resolver that stores a child rebuilt without its collection fields
AttachDroppingSlices(m, parentName, childStructName, rel) ==
    [m EXCEPT ![childStructName].Relations = Append(@, rel),
              ![childStructName].SliceFields = <<>>]

\* childInfo.Relations = append(childInfo.Relations, rel); all[child] = childInfo
Attach(m, parentName, childStructName, rel) ==
    [m EXCEPT ![childStructName].Relations = Append(@, rel)]

\* the body of the loop over parentInfo.SliceFields; st = [all, log]
ResolveSlice(st, parentName, parentInfo, sliceField) ==
    LET childStructName == sliceField.ElemType
    IN  IF childStructName \notin DOMAIN st.all
        THEN [st EXCEPT !.log =
                 Append(@, [msg |-> "unknown struct", struct |-> parentName,
                            what |-> sliceField.Name])]
        ELSE LET childInfo == st.all[childStructName]
                 k == findFKField(childInfo, parentInfo.TableName)
             IN  IF k = 0
                 THEN [st EXCEPT !.log =
                          Append(@, [msg |-> "no FK found", struct |-> parentName,
                                     what |-> sliceField.Name])]
                 ELSE [st EXCEPT !.all =
                          Attach(@, parentName, childStructName,
                                 Relation(childStructName, childInfo.Fields[k]))]

\* a loop over the collection fields that ends at the first field it cannot
\* resolve
RECURSIVE ResolveSlicesUntilFailure(_, _, _, _)
ResolveSlicesUntilFailure(st, parentName, parentInfo, j) ==
    IF j > Len(parentInfo.SliceFields) THEN st
    ELSE Eval(LAMBDA next : IF next.all = st.all THEN next
                            ELSE ResolveSlicesUntilFailure(next, parentName, parentInfo, j + 1),
              ResolveSlice(st, parentName, parentInfo, parentInfo.SliceFields[j]))

RECURSIVE ResolveSlices(_, _, _, _)
ResolveSlices(st, parentName, parentInfo, j) ==
    IF j > Len(parentInfo.SliceFields) THEN st
    ELSE Eval(LAMBDA next : ResolveSlices(next, parentName, parentInfo, j + 1),
              ResolveSlice(st, parentName, parentInfo, parentInfo.SliceFields[j]))

RECURSIVE ResolveParents(_, _, _)
ResolveParents(st, parentNames, i) ==
    IF i > Len(parentNames) THEN st
    ELSE Eval(LAMBDA next : ResolveParents(next, parentNames, i + 1),
              ResolveSlices(st, parentNames[i], st.all[parentNames[i]], 1))

\* ResolveRelations(all) when `range all` yields the keys in the order
\* `ranged`: [all, log]
ResolveRelations(m, ranged) ==
    ResolveParents([all |-> m, log |-> <<>>], SortStrings(ranged), 1)

\* the orders in which a Go map with key set S can be ranged over
RangeOrders(S) == {o \in [1..Cardinality(S) -> S] : Range(o) = S}

(***************************************************************************)
(* Declarations used by the relation and Run specifications.               *)
(***************************************************************************)
FID == Field(<<"ID">>, Ident("string"), <<>>)

DParent == StructDecl("Parent", <<FID, Field(<<"Kids">>, ArrayOf("Child"), <<>>)>>)
DParentTwo ==
    StructDecl("Parent", <<FID, Field(<<"Kids">>, ArrayOf("Child"), <<>>),
                           Field(<<"Extra">>, ArrayOf("Child"), <<>>)>>)
DParentTags ==
    StructDecl("Parent", <<FID, Field(<<"Tags">>, ArrayOf("Tag"), <<>>),
                           Field(<<"Kids">>, ArrayOf("Child"), <<>>)>>)
DOwner == StructDecl("Owner", <<FID, Field(<<"Pets">>, ArrayOf("Child"), <<>>)>>)
DChild ==
    StructDecl("Child", <<FID,
                          Field(<<"ParentID">>, Ident("string"), <<RefTok(<<"parents">>)>>),
                          Field(<<"OwnerID">>, Ident("int64"), <<RefTok(<<"owners", "id">>)>>),
                          Field(<<"GuardianID">>, Ident("string"), <<RefTok(<<"parents">>)>>)>>)
DChildPlain ==
    StructDecl("Child", <<Field(<<"ID">>, Ident("int64"), <<>>),
                          Field(<<"Name">>, Ident("string"), <<>>)>>)
DNode ==
    StructDecl("Node", <<FID, Field(<<"ParentID">>, Ident("string"), <<RefTok(<<"nodes">>)>>),
                         Field(<<"Children">>, ArrayOf("Node"), <<>>)>>)
DBadAutoInc ==
    StructDecl("BadAutoInc", <<Field(<<"ID">>, Ident("string"), <<Tok("autoincrement")>>)>>)
DUnsupp == StructDecl("Unsupp", <<Field(<<"Ch">>, ChanType, <<>>)>>)

\* a child with two fields referring to the table "people" around one
\* referring to "owners"
DChildKeeper ==
    StructDecl("Child", <<FID,
                          Field(<<"OwnerID">>, Ident("string"), <<RefTok(<<"owners">>)>>),
                          Field(<<"KeeperID">>, Ident("int64"), <<RefTok(<<"people">>)>>),
                          Field(<<"SecondID">>, Ident("string"), <<RefTok(<<"people">>)>>)>>)

\* func (o *Owner) TableName() string { return "people" }
PeopleTable == <<Func("StarExpr", "Owner", "TableName", "ReturnLit", "people")>>

\* the StructInfo ParseStruct returns for a declaration and the methods
\* declared with it in mock_generator_model.go
InfoOfFile(decl, funcs) ==
    ParseStruct(decl.name, ModelGo, SourceFile(ModelGo, TRUE, <<decl>>, funcs)).info

InfoOf(decl) == InfoOfFile(decl, <<>>)

RelVariants ==
    [Child |-> {InfoOf(DChild), InfoOf(DChildPlain), InfoOf(DChildKeeper)},
     Node |-> {InfoOf(DNode)},
     Owner |-> {InfoOf(DOwner), InfoOfFile(DOwner, PeopleTable)},
     Parent |-> {InfoOf(DParent), InfoOf(DParentTwo), InfoOf(DParentTags)}]

\* the maps a caller builds from ParseStruct results, keyed by struct name
RelMaps ==
    UNION {{m \in [S -> UNION Range(RelVariants)] : \A n \in S : m[n] \in RelVariants[n]}
           : S \in SUBSET DOMAIN RelVariants}

(***************************************************************************)
(* Specification SpecRel: a caller hands a map of parsed declarations to   *)
(* ResolveRelations, possibly more than once.                              *)
(***************************************************************************)
InitRel ==
    /\ all \in RelMaps
    /\ node = NoNode
    /\ target = ""
    /\ ret = NoRet
    /\ log = <<>>
    /\ disk = <<>>
    /\ pc = "unresolved"
    /\ iter = <<>>
    /\ tree = <<>>
    /\ readonly = {}
    /\ runs = 0
    /\ runRet = ""
    /\ calls = <<>>
    /\ tx = NoTx
    /\ RuntimeIdle

ResolveRelationsCall ==
    /\ runs < MaxResolves
    /\ \E ranged \in RangeOrders(DOMAIN all) :
          LET r == ResolveRelations(all, ranged)
          IN  /\ all' = r.all
              /\ log' = log \o r.log
              /\ iter' = ranged
    /\ runs' = runs + 1
    /\ pc' = "resolved"
    /\ UNCHANGED <<node, target, ret, disk, tree, readonly, runRet, calls, tx, Runtime>>

NextRel == ResolveRelationsCall

SpecRel == InitRel /\ [][NextRel]_vars

\* the relations appended to declaration X by the step
NewRelations(X) ==
    SubSeq(all'[X].Relations, Len(all[X].Relations) + 1, Len(all'[X].Relations))

\* the collection fields <<parent, index>> whose element type is X, a key of
\* the map with a field referring to the parent's table
ResolvableInto(X) ==
    {pj \in {<<P, j>> : P \in DOMAIN all, j \in 1..3} :
        /\ pj[2] \in DOMAIN all[pj[1]].SliceFields
        /\ all[pj[1]].SliceFields[pj[2]].ElemType = X
        /\ \E k \in DOMAIN all[X].Fields : all[X].Fields[k].Ref = all[pj[1]].TableName}

\* C6: for a parent with a collection field of element type C, C being in the
\* map with a field whose foreign-key table is the parent's table, the step
\* appends to C's Relations a descriptor named ReadAll<C>By<FK field>; a
\* declaration's list grows only by the descriptors of the collection fields
\* that point to it, so the parent's list gains nothing from its own field.
C6_RelationOnChild ==
    [][(runs' = runs + 1) =>
          \A X \in DOMAIN all :
             /\ DOMAIN all' = DOMAIN all
             /\ SubSeq(all'[X].Relations, 1, Len(all[X].Relations)) = all[X].Relations
             /\ Len(NewRelations(X)) = Cardinality(ResolvableInto(X))
             /\ \A i \in DOMAIN NewRelations(X) :
                   LET r == NewRelations(X)[i]
                   IN  /\ r.ChildStruct = X
                       /\ r.LoaderName = "ReadAll" \o X \o "By" \o r.FKField
                       /\ \E pj \in ResolvableInto(X) : \E k \in DOMAIN all[X].Fields :
                             /\ all[X].Fields[k].Name = r.FKField
                             /\ all[X].Fields[k].Ref = all[pj[1]].TableName
             /\ \A pj \in ResolvableInto(X) :
                   \E i \in DOMAIN NewRelations(X) : \E k \in DOMAIN all[X].Fields :
                       /\ all[X].Fields[k].Name = NewRelations(X)[i].FKField
                       /\ all[X].Fields[k].Ref = all[pj[1]].TableName
    ]_vars

C6_Witness ==
    /\ pc = "resolved"
    /\ runs = 1
    /\ DOMAIN all = {"Parent", "Child"}
    /\ Len(all["Parent"].SliceFields) = 1
    /\ all["Parent"].Relations = <<>>
    /\ Len(all["Child"].Relations) = 1
    /\ all["Child"].Relations[1].LoaderName = "ReadAllChildByParentID"

\* the descriptors a pass over the parents in sorted name order, each
\* parent's collection fields in declaration order, attaches to X
RECURSIVE ExpectedFor(_, _, _, _)
ExpectedFor(m, X, i, j) ==
    IF i > Len(NameOrder) THEN <<>>
    ELSE IF NameOrder[i] \notin DOMAIN m THEN ExpectedFor(m, X, i + 1, 1)
    ELSE IF j > Len(m[NameOrder[i]].SliceFields) THEN ExpectedFor(m, X, i + 1, 1)
    ELSE LET P == m[NameOrder[i]]
             hits == {k \in DOMAIN m[X].Fields : m[X].Fields[k].Ref = P.TableName}
             first == CHOOSE k \in hits : \A h \in hits : k <= h
         IN  (IF P.SliceFields[j].ElemType = X /\ hits # {}
              THEN <<m[X].Fields[first].Name>>
              ELSE <<>>) \o ExpectedFor(m, X, i, j + 1)

\* C7: the map after ResolveRelations is the same for every order in which
\* the input map can be ranged over, and every Relations list is extended in
\* the order of the sorted parent names and, per parent, of its collection
\* fields.
C7_OrderIndependent ==
    [][(runs' = runs + 1) =>
          /\ \A o \in RangeOrders(DOMAIN all) :
                /\ ResolveRelations(all, o).all = all'
                /\ log \o ResolveRelations(all, o).log = log'
          /\ \A X \in DOMAIN all :
                [i \in DOMAIN NewRelations(X) |-> NewRelations(X)[i].FKField]
                    = ExpectedFor(all, X, 1, 1)
    ]_vars

C7_Witness ==
    /\ pc = "resolved"
    /\ runs = 1
    /\ iter = <<"Parent", "Owner", "Child">>
    /\ Len(all["Child"].Relations) = 2
    /\ all["Child"].Relations[1].FKField = "OwnerID"
    /\ all["Child"].Relations[2].FKField = "ParentID"

\* the log entries the step added
AddedLog == SubSeq(log', Len(log) + 1, Len(log'))

\* the collection fields <<parent, index>> of the map
SliceFieldsOf(m) ==
    {pj \in {<<P, j>> : P \in DOMAIN m, j \in 1..3} : pj[2] \in DOMAIN m[pj[1]].SliceFields}

UnknownElem(m, pj) == m[pj[1]].SliceFields[pj[2]].ElemType \notin DOMAIN m

NoForeignKey(m, pj) ==
    /\ ~UnknownElem(m, pj)
    /\ \A k \in DOMAIN m[m[pj[1]].SliceFields[pj[2]].ElemType].Fields :
          m[m[pj[1]].SliceFields[pj[2]].ElemType].Fields[k].Ref # m[pj[1]].TableName

\* the added log entries about collection field pj with message msg
WarningsFor(pj, msg) ==
    {i \in DOMAIN AddedLog :
        AddedLog[i] = [msg |-> msg, struct |-> pj[1],
                       what |-> all[pj[1]].SliceFields[pj[2]].Name]}

\* C17: a ResolveRelations step logs one warning for every collection field
\* whose element type is not a key of the map and one for every collection
\* field whose child has no field referring to the parent's table, logs
\* nothing else, and appends one Relation for every other collection field
\* to its child and none besides; the keys of the map stay.
C17_UnresolvedOnlySkipped ==
    [][(runs' = runs + 1) =>
          /\ \A pj \in SliceFieldsOf(all) :
                /\ UnknownElem(all, pj) => Cardinality(WarningsFor(pj, "unknown struct")) = 1
                /\ NoForeignKey(all, pj) => Cardinality(WarningsFor(pj, "no FK found")) = 1
                /\ (~UnknownElem(all, pj) /\ ~NoForeignKey(all, pj)) =>
                      /\ WarningsFor(pj, "unknown struct") = {}
                      /\ WarningsFor(pj, "no FK found") = {}
                      /\ \E i \in DOMAIN NewRelations(all[pj[1]].SliceFields[pj[2]].ElemType) :
                            NewRelations(all[pj[1]].SliceFields[pj[2]].ElemType)[i].ChildStruct
                                = all[pj[1]].SliceFields[pj[2]].ElemType
          /\ Len(AddedLog) =
                Cardinality({pj \in SliceFieldsOf(all) :
                                UnknownElem(all, pj) \/ NoForeignKey(all, pj)})
          /\ DOMAIN all' = DOMAIN all
          /\ \A X \in DOMAIN all : Len(NewRelations(X)) = Cardinality(ResolvableInto(X))
    ]_vars

C17_Witness ==
    /\ pc = "resolved"
    /\ runs = 1
    /\ DOMAIN all = {"Child", "Owner", "Parent"}
    /\ Len(all["Parent"].SliceFields) = 2
    /\ all["Parent"].SliceFields[1].ElemType = "Tag"
    /\ log = <<[msg |-> "unknown struct", struct |-> "Parent", what |-> "Tags"]>>
    /\ Len(all["Child"].Relations) = 2

\* the fields of X whose foreign-key table is the table name of parent P
Matching(X, P) == {k \in DOMAIN all[X].Fields : all[X].Fields[k].Ref = all[P].TableName}

\* the descriptor of child X built from the first of them
FromFirstMatch(X, P) ==
    LET f == all[X].Fields[CHOOSE k \in Matching(X, P) : \A h \in Matching(X, P) : k <= h]
    IN  [ChildStruct |-> X, FKField |-> f.Name, FKColumn |-> f.ColumnName,
         LoaderName |-> "ReadAll" \o X \o "By" \o f.Name, FKFieldType |-> f.GoType]

\* C23: for every collection field of a parent P whose element type X is in
\* the map and has a field referring to P's table name (the literal of P's
\* TableName method, or the name derived from the struct name), the step
\* appends to X the descriptor made of the name, column name and type of the
\* first such field of X in declaration order, and every appended descriptor
\* is made this way; fields of X that match later are not used.
C23_FirstMatchingField ==
    [][(runs' = runs + 1) =>
          \A X \in DOMAIN all :
             /\ \A pj \in ResolvableInto(X) :
                   \E i \in DOMAIN NewRelations(X) :
                       NewRelations(X)[i] = FromFirstMatch(X, pj[1])
             /\ \A i \in DOMAIN NewRelations(X) :
                   \E pj \in ResolvableInto(X) :
                       NewRelations(X)[i] = FromFirstMatch(X, pj[1])
             /\ Len(NewRelations(X)) = Cardinality(ResolvableInto(X))
    ]_vars

C23_Witness ==
    /\ pc = "resolved"
    /\ runs = 1
    /\ DOMAIN all = {"Child", "Owner"}
    /\ all["Owner"].TableName = "people"
    /\ all["Owner"].TableNameDeclared
    /\ [k \in DOMAIN all["Child"].Fields |-> all["Child"].Fields[k].Ref]
          = <<"", "owners", "people", "people">>
    /\ all["Child"].Relations =
          <<[ChildStruct |-> "Child", FKField |-> "KeeperID", FKColumn |-> "keeper_id",
             LoaderName |-> "ReadAllChildByKeeperID", FKFieldType |-> "int64"]>>

\* a declaration without its Relations list
Framed(info) == [info EXCEPT !.Relations = <<>>]

\* C26: a ResolveRelations step leaves the keys of the map and, of every
\* declaration, the name, table name, author-declared flag, source unit,
\* package, Fields and collection fields as they were; a Relations list is
\* only extended, and that of a declaration no collection field resolves
\* into is unchanged.
C26_OnlyRelationsChange ==
    [][(runs' = runs + 1) =>
          /\ DOMAIN all' = DOMAIN all
          /\ \A X \in DOMAIN all :
                /\ Framed(all'[X]) = Framed(all[X])
                /\ all'[X].Name = all[X].Name
                /\ all'[X].TableName = all[X].TableName
                /\ all'[X].TableNameDeclared = all[X].TableNameDeclared
                /\ all'[X].SourceFile = all[X].SourceFile
                /\ all'[X].Fields = all[X].Fields
                /\ all'[X].SliceFields = all[X].SliceFields
                /\ SubSeq(all'[X].Relations, 1, Len(all[X].Relations)) = all[X].Relations
                /\ ResolvableInto(X) = {} => all'[X].Relations = all[X].Relations
    ]_vars

C26_Witness ==
    /\ pc = "resolved"
    /\ runs = 2
    /\ DOMAIN all = {"Node", "Parent"}
    /\ Len(all["Node"].SliceFields) = 1
    /\ Len(all["Node"].Relations) = 2
    /\ Len(all["Parent"].SliceFields) = 1
    /\ all["Parent"].Relations = <<>>
    /\ Len(log) = 2

\* C27: after ResolveRelations no Relations list holds two descriptors with
\* the same LoaderName, and the loader functions GenerateForFile writes for a
\* declaration have distinct names.
C27_LoaderNamesDistinct ==
    pc = "resolved" =>
        \A X \in DOMAIN all :
            /\ \A i, j \in DOMAIN all[X].Relations :
                  all[X].Relations[i].LoaderName = all[X].Relations[j].LoaderName => i = j
            /\ \A i, j \in DOMAIN EmitLoaders(all[X]) :
                  EmitLoaders(all[X])[i].func = EmitLoaders(all[X])[j].func => i = j

(***************************************************************************)
(* collectAllStructs, generateAll and Run (ormc.go 412-509).               *)
(* The project tree is a function from paths to source files; disk holds   *)
(* the generated units.  filepath.Walk visits the entries of both in       *)
(* lexical order.                                                          *)
(***************************************************************************)
DirOrder == <<"a", "b", "vendor">>
FileOrder == <<[base |-> "model", ext |-> ".go"], [base |-> "model_orm", ext |-> ".go"],
               [base |-> "models", ext |-> ".go"], [base |-> "models_orm", ext |-> ".go"],
               [base |-> "other", ext |-> ".go"]>>

\* every path of the model, in the order filepath.Walk reaches it
WalkOrder ==
    [i \in 1..(Len(DirOrder) * Len(FileOrder)) |->
        Path(DirOrder[((i - 1) \div Len(FileOrder)) + 1],
             FileOrder[((i - 1) % Len(FileOrder)) + 1].base,
             FileOrder[((i - 1) % Len(FileOrder)) + 1].ext)]

SkippedDir(dirName) == dirName \in {"vendor", ".git", "testdata"}

Recognized(fileName) == fileName = "model.go" \/ fileName = "models.go"

\* what parser.ParseFile yields for the entry at path: a generated unit
\* parses and declares no struct type
FileAt(files, generated, path) ==
    IF path \in DOMAIN files THEN files[path]
    ELSE [SourceFile(path, TRUE, <<>>, <<>>) EXCEPT !.pkg = generated[path].package]

\* what the loop body does with r, the result of ParseStruct for decl
Collect(st, path, decl, r) ==
    IF r.err # ""
    THEN [st EXCEPT !.log =
             Append(@ \o r.log, [msg |-> "Skipping", struct |-> decl.name, what |-> r.err])]
    ELSE IF Len(r.info.Fields) = 0
    THEN [st EXCEPT !.log =
             Append(@ \o r.log, [msg |-> "no mappable fields", struct |-> decl.name,
                                 what |-> ""])]
    ELSE [st EXCEPT
             !.log = @ \o r.log,
             !.all = (r.info.Name :> [r.info EXCEPT !.SourceFile = path]) @@ @,
             !.structOrder = Append(@, r.info.Name),
             !.fileOrder = IF path \in Range(@) THEN @ ELSE Append(@, path)]

\* a loop body that gives up the walk at the first declaration that fails
CollectDeclAborting(st, path, file, decl) ==
    IF ~decl.struct THEN st
    ELSE Eval(LAMBDA r : IF r.err # ""
                         THEN [st EXCEPT !.err = "parse failed"]
                         ELSE Collect(st, path, decl, r),
              ParseStruct(decl.name, path, file))

\* the body of the loop over the type declarations of one file;
\* st = [all, structOrder, fileOrder, log, err]
CollectDecl(st, path, file, decl) ==
    IF ~decl.struct THEN st
    ELSE Eval(LAMBDA r : Collect(st, path, decl, r), ParseStruct(decl.name, path, file))

RECURSIVE CollectDecls(_, _, _, _)
CollectDecls(st, path, file, k) ==
    IF k > Len(file.types) THEN st
    ELSE Eval(LAMBDA next : CollectDecls(next, path, file, k + 1),
              CollectDecl(st, path, file, file.types[k]))

\* the function filepath.Walk calls for the entry at path
Visit(st, files, generated, path) ==
    IF path \in DOMAIN files /\ ~files[path].lstat
    THEN [st EXCEPT !.err = "lstat failed"]
    ELSE IF ~Recognized(FileName(path)) THEN st
    ELSE LET file == FileAt(files, generated, path)
         IN  IF ~file.parseOK THEN st
             ELSE CollectDecls(st, path, file, 1)

RECURSIVE Walk(_, _, _, _)
Walk(st, files, generated, i) ==
    IF i > Len(WalkOrder) \/ st.err # "" THEN st
    ELSE LET path == WalkOrder[i]
         IN  IF path \notin (DOMAIN files \cup DOMAIN generated) \/ SkippedDir(path.dir)
             THEN Walk(st, files, generated, i + 1)
             ELSE Eval(LAMBDA next : Walk(next, files, generated, i + 1),
                       Visit(st, files, generated, path))

\* [all, structOrder, fileOrder, log, err]
collectAllStructs(files, generated) ==
    Walk([all |-> <<>>, structOrder |-> <<>>, fileOrder |-> <<>>, log |-> <<>>, err |-> ""],
         files, generated, 1)

\* byFile[sourceFile]: the infos of structOrder whose SourceFile is sourceFile
ByFile(m, structOrder, sourceFile) ==
    LET infos == [i \in DOMAIN structOrder |-> m[structOrder[i]]]
    IN  SelectSeq(infos, LAMBDA info : info.SourceFile = sourceFile)

\* the loop over fileOrder when a failed write ends the pass
RECURSIVE GenerateFilesUntilFailure(_, _, _, _, _, _)
GenerateFilesUntilFailure(st, m, structOrder, fileOrder, ro, i) ==
    IF i > Len(fileOrder) THEN st
    ELSE LET sourceFile == fileOrder[i]
             infos == ByFile(m, structOrder, sourceFile)
             g == GenerateForFile(infos, sourceFile, st.disk, ro)
         IN  IF Len(infos) = 0
             THEN GenerateFilesUntilFailure(st, m, structOrder, fileOrder, ro, i + 1)
             ELSE IF g.err # ""
             THEN [st EXCEPT !.log = Append(@, [msg |-> "Failed to write output",
                                                struct |-> "", what |-> g.err]),
                             !.calls = Append(@, [infos |-> infos,
                                                  sourceFile |-> sourceFile,
                                                  err |-> g.err])]
             ELSE Eval(LAMBDA n :
                          GenerateFilesUntilFailure(n, m, structOrder, fileOrder, ro, i + 1),
                       [disk |-> g.disk, log |-> st.log,
                        calls |-> Append(st.calls, [infos |-> infos,
                                                    sourceFile |-> sourceFile,
                                                    err |-> g.err])])

\* the loop over fileOrder; st = [disk, log, calls]
RECURSIVE GenerateFiles(_, _, _, _, _, _)
GenerateFiles(st, m, structOrder, fileOrder, ro, i) ==
    IF i > Len(fileOrder) THEN st
    ELSE LET sourceFile == fileOrder[i]
             infos == ByFile(m, structOrder, sourceFile)
             g == GenerateForFile(infos, sourceFile, st.disk, ro)
             next == IF Len(infos) > 0
                     THEN [disk |-> g.disk,
                           log |-> IF g.err # ""
                                   THEN Append(st.log, [msg |-> "Failed to write output",
                                                        struct |-> "", what |-> g.err])
                                   ELSE st.log,
                           calls |-> Append(st.calls, [infos |-> infos,
                                                       sourceFile |-> sourceFile,
                                                       err |-> g.err])]
                     ELSE st
         IN  Eval(LAMBDA n : GenerateFiles(n, m, structOrder, fileOrder, ro, i + 1), next)

\* [disk, log, calls]; generateAll always returns nil
generateAll(m, structOrder, fileOrder, generated, ro) ==
    GenerateFiles([disk |-> generated, log |-> <<>>, calls |-> <<>>],
                  m, structOrder, fileOrder, ro, 1)

\* the outcome of Run once collectAllStructs has returned c, ResolveRelations
\* r and generateAll g
Outcome(e, m, d, lg, cs) == [err |-> e, all |-> m, disk |-> d, log |-> lg, calls |-> cs]

\* the part of Run after the empty-map check
Generate(c, generated, ro, ranged) ==
    Eval(LAMBDA r :
            Eval(LAMBDA g : Outcome("", r.all, g.disk, c.log \o r.log \o g.log, g.calls),
                 generateAll(r.all, c.structOrder, c.fileOrder, generated, ro)),
         ResolveRelations(c.all, ranged))

\* a Run without the empty-map check
RunUnchecked(files, generated, ro, ranged) ==
    Eval(LAMBDA c :
            IF c.err # ""
            THEN Outcome("error walking directory", c.all, generated, c.log, <<>>)
            ELSE Generate(c, generated, ro, ranged),
         collectAllStructs(files, generated))

\* Run when `range all` yields the keys in the order `ranged`:
\* [err, all, disk, log, calls]
Run(files, generated, ro, ranged) ==
    Eval(LAMBDA c :
            IF c.err # ""
            THEN Outcome("error walking directory", c.all, generated, c.log, <<>>)
            ELSE IF DOMAIN c.all = {}
            THEN Outcome("no models found", c.all, generated, c.log, <<>>)
            ELSE Generate(c, generated, ro, ranged),
         collectAllStructs(files, generated))

(***************************************************************************)
(* Inputs of the Run specification.                                        *)
(***************************************************************************)
RunDecls == {DParent, DOwner, DChild, DChildPlain, DBadAutoInc, DUnsupp, TypeDecl("Alias")}

\* a model file of package path.dir with the given declarations
ModelFile(path, decls) == [SourceFile(path, TRUE, decls, <<>>) EXCEPT !.pkg = path.dir]

AModel == Path("a", "model", ".go")
BModels == Path("b", "models", ".go")

SecondFiles == {<<DChild>>, <<DChildPlain, DOwner>>, <<DBadAutoInc>>, <<DParent, DChild>>}

\* a unit left by an earlier version of the generator
StaleUnit == [package |-> "old", structs |-> <<>>]

EnvPaths ==
    {Path("a", "model", ".go"), Path("a", "models", ".go"), Path("a", "other", ".go"),
     Path("b", "model", ".go"), Path("vendor", "model", ".go")}

EnvFirst == {<<DParent, DBadAutoInc>>, <<DUnsupp>>}

EnvSecond(path) ==
    {ModelFile(path, <<DChild, DOwner>>),
     [ModelFile(path, <<DChild>>) EXCEPT !.parseOK = FALSE],
     [ModelFile(path, <<DChild>>) EXCEPT !.lstat = FALSE]}

EnvInputs(p1, p2) ==
    {[tree |-> (p1 :> ModelFile(p1, f1)) @@ (p2 :> f2), readonly |-> ro, disk |-> d] :
        f1 \in EnvFirst, f2 \in EnvSecond(p2), ro \in SUBSET {OutName(p1), OutName(p2)},
        d \in {<<>>, OutName(p1) :> StaleUnit}}

RunInputs ==
    {[tree |-> (AModel :> ModelFile(AModel, fa)), readonly |-> {}, disk |-> <<>>] :
        fa \in SeqsUpTo(RunDecls, MaxDecls)}
    \cup {[tree |-> (AModel :> ModelFile(AModel, fa)) @@ (BModels :> ModelFile(BModels, fb)),
           readonly |-> {}, disk |-> <<>>] :
            fa \in SeqsUpTo(RunDecls, MaxDecls), fb \in SecondFiles}
    \cup UNION {UNION {EnvInputs(p1, p2) : p2 \in EnvPaths \ {p1}} : p1 \in EnvPaths}

(***************************************************************************)
(* Specification SpecRun: the ormc tool is run on a project tree, possibly *)
(* several times.                                                          *)
(***************************************************************************)
InitRun ==
    /\ \E in \in RunInputs : tree = in.tree /\ readonly = in.readonly /\ disk = in.disk
    /\ node = NoNode
    /\ target = ""
    /\ ret = NoRet
    /\ log = <<>>
    /\ pc = "idle"
    /\ all = <<>>
    /\ iter = <<>>
    /\ runs = 0
    /\ runRet = ""
    /\ calls = <<>>
    /\ tx = NoTx
    /\ RuntimeIdle

RunCall ==
    /\ runs < MaxRuns
    /\ \E ranged \in RangeOrders(DOMAIN collectAllStructs(tree, disk).all) :
          LET r == Run(tree, disk, readonly, ranged)
          IN  /\ runRet' = r.err
              /\ all' = r.all
              /\ disk' = r.disk
              /\ log' = r.log
              /\ calls' = r.calls
              /\ iter' = ranged
    /\ runs' = runs + 1
    /\ pc' = "ran"
    /\ UNCHANGED <<node, target, ret, tree, readonly, tx, Runtime>>

NextRun == RunCall

SpecRun == InitRun /\ [][NextRun]_vars

(***************************************************************************)
(* Properties of Run.  The declarations a tree holds are read off the tree *)
(* itself, file by file, and compared with what Run collected and emitted. *)
(***************************************************************************)
\* the walk reaches no entry whose lstat fails
WalkCompletes == \A path \in DOMAIN tree : SkippedDir(path.dir) \/ tree[path].lstat

\* the files of the tree the scan reads declarations from
Scanned ==
    {path \in DOMAIN tree :
        ~SkippedDir(path.dir) /\ Recognized(FileName(path)) /\ tree[path].parseOK}

StructsOf(path) == SelectSeq(tree[path].types, LAMBDA d : d.struct)

ParsedAt(path, d) == ParseStruct(d.name, path, tree[path])

\* the declarations of the file at path that parse and have a mappable field
DeclaredIn(path) ==
    SelectSeq(StructsOf(path),
              LAMBDA d : ParsedAt(path, d).err = "" /\ Len(ParsedAt(path, d).info.Fields) > 0)

\* the declarations of the file at path whose parse fails
FailingIn(path) == SelectSeq(StructsOf(path), LAMBDA d : ParsedAt(path, d).err # "")

\* no file declares a type name twice
ValidFiles ==
    \A path \in DOMAIN tree :
        \A i, j \in DOMAIN tree[path].types :
            tree[path].types[i].name = tree[path].types[j].name => i = j

\* info is what ParseStruct yields for declaration d of the file at path
EmittedAs(info, path, d) ==
    /\ info.Name = d.name
    /\ info.TableName = ParsedAt(path, d).info.TableName
    /\ info.Fields = ParsedAt(path, d).info.Fields

\* C5: a second Run on the unchanged tree leaves every generated unit and the
\* sequence of GenerateForFile calls as the first Run left them, whatever the
\* order the map is ranged over; and the unit a successful call writes is the
\* emission of the declarations it carries, whatever the output file held.
C5_RunIdempotent ==
    [][(runs' = runs + 1) =>
          /\ \A i \in DOMAIN calls' :
                calls'[i].err = "" =>
                    /\ OutName(calls'[i].sourceFile) \in DOMAIN disk'
                    /\ disk'[OutName(calls'[i].sourceFile)] = EmitUnit(calls'[i].infos)
          /\ runs >= 1 =>
                /\ disk' = disk
                /\ calls' = calls
                /\ runRet' = runRet
                /\ all' = all
    ]_vars

C5_Witness ==
    /\ runs = 2
    /\ runRet = ""
    /\ Len(calls) = 2
    /\ \A i \in DOMAIN calls : calls[i].err = ""
    /\ OutName(AModel) \in DOMAIN disk
    /\ disk[OutName(AModel)] # StaleUnit
    /\ Len(disk[OutName(AModel)].structs) = 1

\* C8: after a successful Run every file with a collected declaration has
\* exactly one GenerateForFile call, carrying exactly that file's collected
\* declarations in declaration order, and there is no other call; so every
\* collected declaration is emitted once, in the unit of its own file.
C8_OneCallPerFile ==
    (pc = "ran" /\ runRet = "" /\ ValidFiles) =>
        /\ \A path \in Scanned :
              Len(DeclaredIn(path)) > 0 =>
                  \E i \in DOMAIN calls :
                      /\ calls[i].sourceFile = path
                      /\ \A j \in DOMAIN calls : calls[j].sourceFile = path => j = i
                      /\ Len(calls[i].infos) = Len(DeclaredIn(path))
                      /\ \A k \in DOMAIN calls[i].infos :
                            EmittedAs(calls[i].infos[k], path, DeclaredIn(path)[k])
        /\ \A i \in DOMAIN calls :
              calls[i].sourceFile \in Scanned /\ Len(DeclaredIn(calls[i].sourceFile)) > 0

\* the tree yields no declaration
NothingDeclared == \A path \in Scanned : Len(DeclaredIn(path)) = 0

\* C9: when the walk completes, Run returns "no models found" exactly when
\* no scanned file holds a declaration that parses with a mappable field;
\* then there is no GenerateForFile call, no generated unit changes, and the
\* log holds only what the scan logged.
C9_NoModelsFound ==
    [][(runs' = runs + 1) =>
          /\ (runRet' = "no models found") <=> (WalkCompletes /\ NothingDeclared)
          /\ (runRet' = "no models found") =>
                /\ calls' = <<>>
                /\ disk' = disk
                /\ all' = <<>>
                /\ \A i \in DOMAIN log' :
                      log'[i].msg \notin {"Failed to write output", "unknown struct", "no FK found"}
    ]_vars

C9_Witness ==
    /\ pc = "ran"
    /\ runRet = "no models found"
    /\ \E path \in Scanned : Len(FailingIn(path)) > 0
    /\ \E path \in Scanned : Len(StructsOf(path)) > Len(FailingIn(path))
    /\ calls = <<>>

\* the names of the declarations whose parse fails
FailingNames ==
    UNION {{FailingIn(path)[k].name : k \in DOMAIN FailingIn(path)} : path \in Scanned}

\* the tree without the declarations whose parse fails
Pruned ==
    [path \in DOMAIN tree |->
        IF path \in Scanned
        THEN [tree[path] EXCEPT !.types =
                 SelectSeq(@, LAMBDA d : ~(d.struct /\ ParsedAt(path, d).err # ""))]
        ELSE tree[path]]

\* C10: when the walk completes, every declaration whose parse fails is
\* logged as skipped, and the collected map, the GenerateForFile calls, the
\* generated units and the result of Run are those of the same tree without
\* the failing declarations (so are the other log entries); Run returns
\* success when the collected map is not empty.
C10_OnlyFailingDropped ==
    [][(runs' = runs + 1 /\ WalkCompletes /\ ValidFiles) =>
          /\ \A path \in Scanned :
                \A k \in DOMAIN FailingIn(path) :
                    \E i \in DOMAIN log' :
                        /\ log'[i].msg = "Skipping"
                        /\ log'[i].struct = FailingIn(path)[k].name
          /\ \E r \in {Run(Pruned, disk, readonly, iter')} :
                /\ all' = r.all
                /\ calls' = r.calls
                /\ disk' = r.disk
                /\ runRet' = r.err
                /\ SelectSeq(log', LAMBDA e : e.struct \notin FailingNames) = r.log
          /\ all' # <<>> => runRet' = ""
    ]_vars

C10_Witness ==
    /\ pc = "ran"
    /\ WalkCompletes
    /\ ValidFiles
    /\ runRet = ""
    /\ Len(calls) = 2
    /\ \E i \in DOMAIN calls :
          /\ Len(FailingIn(calls[i].sourceFile)) > 0
          /\ \E k \in DOMAIN log :
                log[k].msg = "Skipping" /\ log[k].struct \in FailingNames

\* no type name is declared twice in the tree
DistinctNames ==
    \A p, q \in DOMAIN tree :
        \A i \in DOMAIN tree[p].types, j \in DOMAIN tree[q].types :
            tree[p].types[i].name = tree[q].types[j].name => (p = q /\ i = j)

\* the entries of the log after the step that warn about a declaration of
\* the file at path
FileWarnings(path) ==
    {i \in DOMAIN log' :
        /\ log'[i].msg \in {"Skipping", "no mappable fields"}
        /\ \E k \in DOMAIN tree[path].types : tree[path].types[k].name = log'[i].struct}

\* C19: when the walk completes, every scanned file without a declaration
\* that parses with a mappable field has a warning in the log, no
\* GenerateForFile call and its unit untouched, and when Run succeeds every
\* other scanned file has its call.
C19_EmptyFileWarned ==
    [][(runs' = runs + 1 /\ WalkCompletes /\ DistinctNames) =>
          /\ \A path \in Scanned :
                Len(DeclaredIn(path)) = 0 =>
                    /\ FileWarnings(path) # {}
                    /\ \A i \in DOMAIN calls' : calls'[i].sourceFile # path
                    /\ OutName(path) \in DOMAIN disk' =>
                          /\ OutName(path) \in DOMAIN disk
                          /\ disk'[OutName(path)] = disk[OutName(path)]
          /\ runRet' = "" =>
                \A path \in Scanned :
                    Len(DeclaredIn(path)) > 0 =>
                        \E i \in DOMAIN calls' : calls'[i].sourceFile = path
    ]_vars

\* the files the emission pass has a unit for, in scan order: the scanned
\* files some collected declaration comes from
EmissionOrder ==
    SelectSeq(WalkOrder,
              LAMBDA path : /\ path \in Scanned
                            /\ \E n \in DOMAIN all : all[n].SourceFile = path)

\* the entries of the log that report a failed write
WriteFailures == SelectSeq(log, LAMBDA entry : entry.msg = "Failed to write output")

\* the calls of the emission pass that failed
FailedCalls == SelectSeq(calls, LAMBDA call : call.err # "")

\* C28: when the walk completes and some declaration is collected, Run
\* returns success whatever the writes did; GenerateForFile is invoked once
\* for every file a collected declaration comes from, in scan order, also
\* after a call that failed; a call fails exactly when its output file
\* cannot be written, each failure is logged in the order of the calls, and
\* the unit of every call that succeeded is on disk.
C28_WriteFailureDoesNotStop ==
    (pc = "ran" /\ WalkCompletes /\ ~NothingDeclared) =>
        /\ runRet = ""
        /\ Len(calls) = Len(EmissionOrder)
        /\ \A i \in DOMAIN calls :
              /\ calls[i].sourceFile = EmissionOrder[i]
              /\ calls[i].err # "" <=> OutName(calls[i].sourceFile) \in readonly
              /\ calls[i].err = "" =>
                    /\ OutName(calls[i].sourceFile) \in DOMAIN disk
                    /\ disk[OutName(calls[i].sourceFile)] = EmitUnit(calls[i].infos)
        /\ Len(WriteFailures) = Len(FailedCalls)
        /\ \A k \in DOMAIN WriteFailures : WriteFailures[k].what = FailedCalls[k].err

C28_Witness ==
    /\ pc = "ran"
    /\ WalkCompletes
    /\ runRet = ""
    /\ Len(calls) = 2
    /\ calls[1].err # ""
    /\ calls[2].err = ""
    /\ OutName(calls[1].sourceFile) \notin DOMAIN disk
    /\ disk[OutName(calls[2].sourceFile)] = EmitUnit(calls[2].infos)
    /\ Len(WriteFailures) = 1

(***************************************************************************)
(* DB.Tx (tx.go 16-39).  db.exec either implements TxExecutor or not;      *)
(* BeginTx, fn, Commit and Rollback are the caller's: each returns nil     *)
(* ("") or an error.  fn may use the DB it is handed.                      *)
(***************************************************************************)
ErrNoTxSupport == "ErrNoTxSupport"

\* txExec, ok := db.exec.(TxExecutor); if !ok { return ErrNoTxSupport }
Enter(t) ==
    IF t.exec # "TxExecutor"
    THEN [t EXCEPT !.pos = "idle", !.trace = <<>>, !.fnErr = "", !.fnExec = "",
                   !.beginErr = "", !.commitErr = "", !.n = @ + 1,
                   !.results = Append(@, ErrNoTxSupport)]
    ELSE [t EXCEPT !.pos = "asserted", !.trace = <<>>, !.fnErr = "", !.fnExec = "",
                   !.beginErr = "", !.commitErr = "", !.n = @ + 1]

\* bound, err := txExec.BeginTx(); if err != nil { return err }
Begin(t, err) ==
    IF err # ""
    THEN [t EXCEPT !.pos = "idle", !.trace = Append(@, "BeginTx"), !.beginErr = err,
                   !.results = Append(@, err)]
    ELSE [t EXCEPT !.pos = "begun", !.trace = Append(@, "BeginTx")]

\* txDB := &DB{exec: bound, planner: db.planner}; fn(txDB)
CallFn(t) == [t EXCEPT !.pos = "in fn", !.trace = Append(@, "fn"), !.fnExec = "bound"]

\* fn runs a statement on the DB it was handed
FnExec(t) == [t EXCEPT !.trace = Append(@, "Exec on " \o t.fnExec)]

\* fn returns err
FnReturn(t, err) == [t EXCEPT !.pos = "fn returned", !.fnErr = err]

\* a Tx that commits after rolling back
FinishCommitAfterRollback(t, rollbackErr, commitErr) ==
    IF t.fnErr # ""
    THEN [t EXCEPT !.pos = "idle", !.trace = @ \o <<"Rollback", "Commit">>,
                   !.results = Append(@, t.fnErr)]
    ELSE [t EXCEPT !.pos = "idle", !.trace = Append(@, "Commit"), !.commitErr = commitErr,
                   !.results = Append(@, commitErr)]

\* if err := fn(txDB); err != nil { bound.Rollback(); return err }
\* return bound.Commit()
Finish(t, rollbackErr, commitErr) ==
    IF t.fnErr # ""
    THEN [t EXCEPT !.pos = "idle", !.trace = Append(@, "Rollback"),
                   !.results = Append(@, t.fnErr)]
    ELSE [t EXCEPT !.pos = "idle", !.trace = Append(@, "Commit"), !.commitErr = commitErr,
                   !.results = Append(@, commitErr)]

InitTx ==
    /\ \E x \in {"Executor", "TxExecutor"} : tx = [NoTx EXCEPT !.exec = x]
    /\ node = NoNode
    /\ target = ""
    /\ ret = NoRet
    /\ log = <<>>
    /\ disk = <<>>
    /\ pc = "idle"
    /\ all = <<>>
    /\ iter = <<>>
    /\ tree = <<>>
    /\ readonly = {}
    /\ runs = 0
    /\ runRet = ""
    /\ calls = <<>>
    /\ RuntimeIdle

Idle == <<node, target, ret, log, disk, pc, all, iter, tree, readonly, runs, runRet, calls,
          Runtime>>

TxEnter ==
    /\ tx.pos = "idle"
    /\ tx.n < MaxTx
    /\ tx' = Enter(tx)
    /\ UNCHANGED Idle

TxBeginTx ==
    /\ tx.pos = "asserted"
    /\ \E err \in {"", "begin error"} : tx' = Begin(tx, err)
    /\ UNCHANGED Idle

TxCallFn ==
    /\ tx.pos = "begun"
    /\ tx' = CallFn(tx)
    /\ UNCHANGED Idle

TxFnExec ==
    /\ tx.pos = "in fn"
    /\ Len(SelectSeq(tx.trace, LAMBDA c : c = "Exec on bound")) < MaxOps
    /\ tx' = FnExec(tx)
    /\ UNCHANGED Idle

TxFnReturn ==
    /\ tx.pos = "in fn"
    /\ \E err \in {"", "oops"} : tx' = FnReturn(tx, err)
    /\ UNCHANGED Idle

TxFinish ==
    /\ tx.pos = "fn returned"
    /\ \E rollbackErr \in {"", "rollback error"}, commitErr \in {"", "commit error"} :
          tx' = Finish(tx, rollbackErr, commitErr)
    /\ UNCHANGED Idle

NextTx == TxEnter \/ TxBeginTx \/ TxCallFn \/ TxFnExec \/ TxFnReturn \/ TxFinish

SpecTx == InitTx /\ [][NextTx]_vars

\* how often call c was made during the current call of Tx
Count(c) == Len(SelectSeq(tx.trace, LAMBDA x : x = c))

\* the current call of Tx has returned
TxReturned == tx.pos = "idle" /\ tx.n > 0

\* C20: Commit and Rollback are never both called and neither twice, and
\* never before fn; when Tx has returned: without transaction support it
\* returned ErrNoTxSupport and nothing was called; after a failed BeginTx it
\* returned that error and fn was not called; otherwise fn was called once,
\* on a DB whose executor is the bound one, and then Rollback once (no
\* Commit, fn's error returned) when fn returned an error, Commit once (no
\* Rollback, Commit's result returned) when fn returned nil.
C20_TxCommitOrRollback ==
    /\ Count("Commit") + Count("Rollback") <= 1
    /\ Count("fn") <= 1
    /\ Count("Commit") + Count("Rollback") = 1 =>
          /\ tx.pos = "idle"
          /\ Count("fn") = 1
          /\ tx.trace[Len(tx.trace)] \in {"Commit", "Rollback"}
    /\ TxReturned =>
          LET result == tx.results[Len(tx.results)]
          IN  /\ Len(tx.results) = tx.n
              /\ tx.exec # "TxExecutor" => (result = ErrNoTxSupport /\ tx.trace = <<>>)
              /\ (tx.exec = "TxExecutor" /\ tx.beginErr # "") =>
                    (result = tx.beginErr /\ tx.trace = <<"BeginTx">>)
              /\ (tx.exec = "TxExecutor" /\ tx.beginErr = "") =>
                    /\ tx.trace[1] = "BeginTx"
                    /\ tx.trace[2] = "fn"
                    /\ Count("BeginTx") = 1
                    /\ Count("fn") = 1
                    /\ tx.fnExec = "bound"
                    /\ tx.fnErr # "" =>
                          /\ Count("Rollback") = 1
                          /\ Count("Commit") = 0
                          /\ result = tx.fnErr
                    /\ tx.fnErr = "" =>
                          /\ Count("Commit") = 1
                          /\ Count("Rollback") = 0
                          /\ result = tx.commitErr

C20_Witness ==
    /\ tx.n = 2
    /\ tx.pos = "idle"
    /\ tx.results = <<"oops", "commit error">>
    /\ tx.trace = <<"BeginTx", "fn", "Exec on bound", "Commit">>


(***************************************************************************)
(* The runtime: DB and QB (db.go, tx.go 41-224), validate (part_001).      *)
(* A model is what its methods return: Table for TableName(), Cols for the *)
(* names Columns() and Schema() deliver, Vals for Values().  The compiler, *)
(* the executor, the scanner and the rows are the collaborators of the     *)
(* tests (part_012), each with the error it is set to return; rows may     *)
(* fail to scan at any one row.  An operation's trace lists the calls it   *)
(* made on them and on the callbacks, [call, arg], arg the ordinal of the  *)
(* model new() returned (0 for calls without a model).                     *)
(***************************************************************************)
ErrValidation == <<"validation error">>
ErrEmptyTable == <<"empty table name">>

ActionCreate == "ActionCreate"
ActionReadOne == "ActionReadOne"
ActionUpdate == "ActionUpdate"
ActionDelete == "ActionDelete"
ActionReadAll == "ActionReadAll"

\* fmt.Err(err, msg): err wrapped with context
Err(err, msg) == err \o <<msg>>

\* errors.Is(err, target) / strings.Contains(err.Error(), target.Error())
Is(err, sentinel) ==
    /\ Len(err) >= Len(sentinel)
    /\ SubSeq(err, 1, Len(sentinel)) = sentinel

\* validate with the length check for every action
validateEveryAction(action, m) ==
    IF m.Table = ""
    THEN ErrEmptyTable
    ELSE IF Len(m.Cols) # Len(m.Vals)
         THEN Err(ErrValidation, "columns and values length mismatch")
         ELSE Nil

validate(action, m) ==
    IF m.Table = ""
    THEN ErrEmptyTable
    ELSE IF action \in {ActionCreate, ActionUpdate} /\ Len(m.Cols) # Len(m.Vals)
         THEN Err(ErrValidation, "columns and values length mismatch")
         ELSE Nil

Call(name, arg) == [call |-> name, arg |-> arg]

\* what an operation leaves behind: its result, the calls it made, and the
\* query the compiler received (LastQuery)
Done(err, trace, q) == [ret |-> err, trace |-> trace, query |-> q]

\* plan, err := db.compiler.Compile(q, m); if err != nil { return err }
\* return db.exec.Exec(plan.Query, plan.Args...)
CompileAndExec(q, env) ==
    IF env.compileErr # Nil
    THEN Done(env.compileErr, <<Call("Compile", 0)>>, q)
    ELSE Done(env.execErr, <<Call("Compile", 0), Call("Exec", 0)>>, q)

Create(m, env) ==
    IF validate(ActionCreate, m) # Nil
    THEN Done(validate(ActionCreate, m), <<>>, NoQuery)
    ELSE CompileAndExec([NoQuery EXCEPT !.Action = ActionCreate, !.Table = m.Table,
                                        !.Columns = m.Cols, !.Values = m.Vals], env)

Update(m, conds, env) ==
    IF validate(ActionUpdate, m) # Nil
    THEN Done(validate(ActionUpdate, m), <<>>, NoQuery)
    ELSE CompileAndExec([NoQuery EXCEPT !.Action = ActionUpdate, !.Table = m.Table,
                                        !.Columns = m.Cols, !.Values = m.Vals,
                                        !.Conditions = conds], env)

Delete(m, conds, env) ==
    IF validate(ActionDelete, m) # Nil
    THEN Done(validate(ActionDelete, m), <<>>, NoQuery)
    ELSE CompileAndExec([NoQuery EXCEPT !.Action = ActionDelete, !.Table = m.Table,
                                        !.Conditions = conds], env)

\* db.Query(m)
Query(m) == [NoQB EXCEPT !.model = m]

\* The condition helpers (conditions.go; In is called by Clause.In and
\* tested with operator "IN", its body is not in conditions.go)
Operator(call) ==
    CASE call = "Eq" -> "="
      [] call = "Neq" -> "!="
      [] call = "Gt" -> ">"
      [] call = "Gte" -> ">="
      [] call = "Lt" -> "<"
      [] call = "Lte" -> "<="
      [] call = "Like" -> "LIKE"
      [] call = "In" -> "IN"

ClauseCalls == {"Eq", "Neq", "Gt", "Gte", "Lt", "Lte", "Like", "In"}

Condition(call, field, value) ==
    [field |-> field, operator |-> Operator(call), value |-> value, logic |-> "AND"]

\* qb.Where(column): a Clause on qb
Where(column) == <<[field |-> column]>>

\* qb.Or()
Or(q) == [q EXCEPT !.nextOr = TRUE]

\* addCondition that leaves nextOr set
addConditionKeepingOr(q, c) ==
    [q EXCEPT !.conds = Append(@, [c EXCEPT !.logic = IF q.nextOr THEN "OR" ELSE "AND"])]

addCondition(q, c) ==
    IF q.nextOr
    THEN [q EXCEPT !.conds = Append(@, [c EXCEPT !.logic = "OR"]), !.nextOr = FALSE]
    ELSE [q EXCEPT !.conds = Append(@, [c EXCEPT !.logic = "AND"])]

\* c.Eq(value), c.Neq(value), ...: c.qb.addCondition(Eq(c.field, value))
ClauseOp(q, c, call, value) == addCondition(q, Condition(call, c.field, value))

Limit(q, n) == [q EXCEPT !.limit = n]
Offset(q, n) == [q EXCEPT !.offset = n]

\* qb.OrderBy(column).Asc() / .Desc()
OrderBy(q, column, dir) == [q EXCEPT !.orderBy = Append(@, [column |-> column, dir |-> dir])]

GroupBy(q, columns) == [q EXCEPT !.groupBy = @ \o columns]

ReadOne(q, env) ==
    IF validate(ActionReadOne, q.model) # Nil
    THEN Done(validate(ActionReadOne, q.model), <<>>, NoQuery)
    ELSE LET query == [NoQuery EXCEPT !.Action = ActionReadOne, !.Table = q.model.Table,
                                      !.Conditions = q.conds, !.OrderBy = q.orderBy,
                                      !.GroupBy = q.groupBy, !.Limit = 1,
                                      !.Offset = q.offset]
         IN  IF env.compileErr # Nil
             THEN Done(env.compileErr, <<Call("Compile", 0)>>, query)
             ELSE Done(env.scanErr,
                       <<Call("Compile", 0), Call("QueryRow", 0), Call("Scan", 0)>>, query)

\* The loop of ReadAll from the row after `current`; the result is the
\* returned error and the calls made, before the deferred rows.Close()
RECURSIVE ScanAndCallAnyway(_, _, _)
ScanAndCallAnyway(rows, current, trace) ==
    IF current < rows.Count
    THEN LET m == current + 1
             t == trace \o <<Call("Next", 0), Call("new", m), Call("Scan", m),
                             Call("onRow", m)>>
         IN  IF rows.ScanErrAt = m
             THEN [ret |-> <<"scan err">>, trace |-> t]
             ELSE ScanAndCallAnyway(rows, m, t)
    ELSE [ret |-> rows.ErrVal, trace |-> trace \o <<Call("Next", 0), Call("Err", 0)>>]

RECURSIVE Iterate(_, _, _)
Iterate(rows, current, trace) ==
    IF current < rows.Count
    THEN LET m == current + 1
             t == trace \o <<Call("Next", 0), Call("new", m), Call("Scan", m)>>
         IN  IF rows.ScanErrAt = m
             THEN [ret |-> <<"scan err">>, trace |-> t]
             ELSE Iterate(rows, m, Append(t, Call("onRow", m)))
    ELSE [ret |-> rows.ErrVal, trace |-> trace \o <<Call("Next", 0), Call("Err", 0)>>]

\* defer rows.Close()
Deferred(r, query) == Done(r.ret, Append(r.trace, Call("Close", 0)), query)

ReadAll(q, env) ==
    IF validate(ActionReadAll, q.model) # Nil
    THEN Done(validate(ActionReadAll, q.model), <<>>, NoQuery)
    ELSE LET query == [NoQuery EXCEPT !.Action = ActionReadAll, !.Table = q.model.Table,
                                      !.Conditions = q.conds, !.OrderBy = q.orderBy,
                                      !.GroupBy = q.groupBy, !.Limit = q.limit,
                                      !.Offset = q.offset]
         IN  IF env.compileErr # Nil
             THEN Done(env.compileErr, <<Call("Compile", 0)>>, query)
             ELSE IF env.queryErr # Nil
                  THEN Done(env.queryErr, <<Call("Compile", 0), Call("Query", 0)>>, query)
                  ELSE Deferred(Iterate(env.rows, 0,
                                        <<Call("Compile", 0), Call("Query", 0)>>), query)


(***************************************************************************)
(* Specification SpecDB: the five operations called on models and          *)
(* collaborators as the tests construct them (core_test.go 95-238,         *)
(* 422-487), reads through a builder db.Query(m) that is not kept.         *)
(***************************************************************************)
ColumnPool == <<"a", "b", "c", "d">>

Models ==
    {[Table |-> t, Cols |-> SubSeq(ColumnPool, 1, c), Vals |-> [i \in 1..v |-> "v"]] :
        t \in {"", "users"}, c \in 0..MaxCols, v \in 0..MaxCols}

CondLists == {<<>>, <<Condition("Eq", "a", "v")>>}

ExecEnvs ==
    {[NoEnv EXCEPT !.compileErr = c, !.execErr = e] :
        c \in {Nil, <<"plan err">>}, e \in {Nil, <<"exec err">>}}

ReadOneEnvs ==
    {[NoEnv EXCEPT !.compileErr = c, !.scanErr = e] :
        c \in {Nil, <<"plan err">>}, e \in {Nil, <<"scan err">>}}

RowSets ==
    {r \in [Count : 0..MaxRows, ScanErrAt : 0..MaxRows, ErrVal : {Nil, <<"rows err">>}] :
        r.ScanErrAt <= r.Count}

ReadAllEnvs ==
    {[NoEnv EXCEPT !.compileErr = c, !.queryErr = e, !.rows = r] :
        c \in {Nil, <<"plan err">>}, e \in {Nil, <<"query err">>}, r \in RowSets}

Operation(action, m, env, r) ==
    [action |-> action, model |-> m, env |-> env, ret |-> r.ret, trace |-> r.trace,
     query |-> r.query]

InitDB ==
    /\ RuntimeIdle
    /\ tx = NoTx
    /\ node = NoNode
    /\ target = ""
    /\ ret = NoRet
    /\ log = <<>>
    /\ disk = <<>>
    /\ pc = "idle"
    /\ all = <<>>
    /\ iter = <<>>
    /\ tree = <<>>
    /\ readonly = {}
    /\ runs = 0
    /\ runRet = ""
    /\ calls = <<>>

Generator == <<node, target, ret, log, disk, pc, all, iter, tree, readonly, runs, runRet, calls, tx>>

CreateCall ==
    /\ \E m \in Models, env \in ExecEnvs :
          last' = Operation(ActionCreate, m, env, Create(m, env))
    /\ UNCHANGED <<qb, clause, chain, Generator>>

UpdateCall ==
    /\ \E m \in Models, conds \in CondLists, env \in ExecEnvs :
          last' = Operation(ActionUpdate, m, env, Update(m, conds, env))
    /\ UNCHANGED <<qb, clause, chain, Generator>>

DeleteCall ==
    /\ \E m \in Models, conds \in CondLists, env \in ExecEnvs :
          last' = Operation(ActionDelete, m, env, Delete(m, conds, env))
    /\ UNCHANGED <<qb, clause, chain, Generator>>

\* db.Query(model).ReadOne()
ReadOneCall ==
    /\ \E m \in Models, env \in ReadOneEnvs :
          last' = Operation(ActionReadOne, m, env, ReadOne(Query(m), env))
    /\ UNCHANGED <<qb, clause, chain, Generator>>

\* db.Query(model).ReadAll(factory, each)
ReadAllCall ==
    /\ \E m \in Models, env \in ReadAllEnvs :
          last' = Operation(ActionReadAll, m, env, ReadAll(Query(m), env))
    /\ UNCHANGED <<qb, clause, chain, Generator>>

NextDB == CreateCall \/ UpdateCall \/ DeleteCall \/ ReadOneCall \/ ReadAllCall

SpecDB == InitDB /\ [][NextDB]_vars

\* the calls an operation made on the executor
ExecutorCalls == {i \in DOMAIN last.trace : last.trace[i].call \in {"Exec", "QueryRow", "Query"}}

CountMismatch == Len(last.model.Cols) # Len(last.model.Vals)

\* C21: every operation validates first: an empty table name gives
\* ErrEmptyTable whatever the action; with a table name, Create and Update
\* with differing column and value counts give ErrValidation, while Delete,
\* ReadOne and ReadAll do not look at the counts; after a validation error
\* nothing was called, after a compiler error the executor was not called,
\* and otherwise the executor was called once.
C21_ValidateFirst ==
    last.action # "" =>
        /\ last.model.Table = "" => (last.ret = ErrEmptyTable /\ last.trace = <<>>)
        /\ (last.model.Table # "" /\ last.action \in {ActionCreate, ActionUpdate}
              /\ CountMismatch) =>
                 (Is(last.ret, ErrValidation) /\ last.trace = <<>>)
        /\ (last.model.Table # ""
              /\ ~(last.action \in {ActionCreate, ActionUpdate} /\ CountMismatch)) =>
                 /\ ~Is(last.ret, ErrValidation)
                 /\ ~Is(last.ret, ErrEmptyTable)
                 /\ last.trace[1] = Call("Compile", 0)
                 /\ last.env.compileErr # Nil =>
                       (last.ret = last.env.compileErr /\ ExecutorCalls = {})
                 /\ last.env.compileErr = Nil => Cardinality(ExecutorCalls) = 1

C21_Witness ==
    /\ last.action = ActionDelete
    /\ last.model.Table = "users"
    /\ CountMismatch
    /\ last.env.compileErr = Nil
    /\ last.ret = <<"exec err">>
    /\ last.trace = <<Call("Compile", 0), Call("Exec", 0)>>


\* ReadAll got its rows: validation, compiler and executor.Query succeeded
QuerySucceeded ==
    /\ last.action = ActionReadAll
    /\ last.model.Table # ""
    /\ last.env.compileErr = Nil
    /\ last.env.queryErr = Nil

\* positions in the trace of the last operation of the call `name` on the
\* k-th model
At(name, k) == {i \in DOMAIN last.trace : last.trace[i] = Call(name, k)}

Once(name, k) == Cardinality(At(name, k)) = 1

Before(S, T) == \A i \in S, j \in T : i < j

ScanFails == last.env.rows.ScanErrAt # 0

\* the rows ReadAll has to fetch: all of them, or those up to the failing one
Fetched == IF ScanFails THEN last.env.rows.ScanErrAt ELSE last.env.rows.Count

\* C29: after a successful query ReadAll takes the rows in order; for each
\* row, one new(), then one Scan into that model, then one onRow with that
\* model; a failing Scan ends the loop, its error is returned, onRow is not
\* called for that row and no later row is fetched; without Scan failure the
\* result is rows.Err(); rows.Close() is called exactly once, as the last
\* call.  Without rows (validation, compiler or Query failed) nothing is
\* closed.
C29_ReadAllRowsInOrder ==
    /\ QuerySucceeded =>
          /\ \A k \in 1..Fetched :
                /\ Once("new", k) /\ Once("Scan", k)
                /\ Before(At("new", k), At("Scan", k))
                /\ Before(At("Scan", k), At("onRow", k))
                /\ Before(At("onRow", k), At("new", k + 1))
                /\ Before(At("Scan", k), At("new", k + 1))
                /\ IF ScanFails /\ k = Fetched
                   THEN At("onRow", k) = {}
                   ELSE Once("onRow", k)
          /\ \A i \in DOMAIN last.trace :
                last.trace[i].call \in {"new", "Scan", "onRow"} =>
                    last.trace[i].arg \in 1..Fetched
          /\ IF ScanFails
             THEN /\ last.ret = <<"scan err">>
                  /\ Cardinality(At("Next", 0)) = Fetched
                  /\ At("Err", 0) = {}
             ELSE /\ last.ret = last.env.rows.ErrVal
                  /\ Cardinality(At("Next", 0)) = Fetched + 1
                  /\ Once("Err", 0)
          /\ At("Close", 0) = {Len(last.trace)}
    /\ (last.action = ActionReadAll /\ ~QuerySucceeded) => At("Close", 0) = {}

C29_Witness ==
    /\ QuerySucceeded
    /\ last.env.rows = [Count |-> 2, ScanErrAt |-> 2, ErrVal |-> <<"rows err">>]
    /\ last.ret = <<"scan err">>
    /\ last.trace = <<Call("Compile", 0), Call("Query", 0),
                      Call("Next", 0), Call("new", 1), Call("Scan", 1), Call("onRow", 1),
                      Call("Next", 0), Call("new", 2), Call("Scan", 2), Call("Close", 0)>>


(***************************************************************************)
(* Specification SpecQB: a caller holds a *QB and builds a query by        *)
(* fluent calls, in any order, then reads (tx.go 41-224; core_test.go      *)
(* 395-420, ormc_multi_test.go 255-304).  chain keeps the fluent calls.    *)
(***************************************************************************)
Fluent(name, field, value) == [call |-> name, field |-> field, value |-> value]

QBModels ==
    {[Table |-> t, Cols |-> <<"a">>, Vals |-> <<"v">>] : t \in {"", "items"}}

QBEnvs == {NoEnv, [NoEnv EXCEPT !.compileErr = <<"plan err">>]}

InitQB ==
    /\ \E m \in QBModels : qb = Query(m)
    /\ clause = <<>>
    /\ chain = <<>>
    /\ last = NoLast
    /\ tx = NoTx
    /\ node = NoNode
    /\ target = ""
    /\ ret = NoRet
    /\ log = <<>>
    /\ disk = <<>>
    /\ pc = "idle"
    /\ all = <<>>
    /\ iter = <<>>
    /\ tree = <<>>
    /\ readonly = {}
    /\ runs = 0
    /\ runRet = ""
    /\ calls = <<>>

\* the builder is used until the query is read
Building == last = NoLast /\ Len(chain) < MaxChain

WhereCall ==
    /\ Building
    /\ \E column \in {"a", "b"} :
          /\ clause' = Where(column)
          /\ chain' = Append(chain, Fluent("Where", column, ""))
    /\ UNCHANGED <<qb, last, Generator>>

ClauseCall ==
    /\ Building
    /\ clause # <<>>
    /\ \E name \in ClauseCalls :
          /\ qb' = ClauseOp(qb, clause[1], name, "v")
          /\ chain' = Append(chain, Fluent(name, clause[1].field, "v"))
    /\ UNCHANGED <<clause, last, Generator>>

OrCall ==
    /\ Building
    /\ qb' = Or(qb)
    /\ chain' = Append(chain, Fluent("Or", "", ""))
    /\ UNCHANGED <<clause, last, Generator>>

LimitCall ==
    /\ Building
    /\ qb' = Limit(qb, 5)
    /\ chain' = Append(chain, Fluent("Limit", "", ""))
    /\ UNCHANGED <<clause, last, Generator>>

OffsetCall ==
    /\ Building
    /\ qb' = Offset(qb, 10)
    /\ chain' = Append(chain, Fluent("Offset", "", ""))
    /\ UNCHANGED <<clause, last, Generator>>

OrderByCall ==
    /\ Building
    /\ \E dir \in {"ASC", "DESC"} :
          /\ qb' = OrderBy(qb, "a", dir)
          /\ chain' = Append(chain, Fluent("OrderBy", "a", dir))
    /\ UNCHANGED <<clause, last, Generator>>

GroupByCall ==
    /\ Building
    /\ qb' = GroupBy(qb, <<"a", "b">>)
    /\ chain' = Append(chain, Fluent("GroupBy", "", ""))
    /\ UNCHANGED <<clause, last, Generator>>

QBReadOne ==
    /\ last = NoLast
    /\ \E env \in QBEnvs :
          last' = Operation(ActionReadOne, qb.model, env, ReadOne(qb, env))
    /\ UNCHANGED <<qb, clause, chain, Generator>>

QBReadAll ==
    /\ last = NoLast
    /\ \E env \in QBEnvs :
          last' = Operation(ActionReadAll, qb.model, env, ReadAll(qb, env))
    /\ UNCHANGED <<qb, clause, chain, Generator>>

NextQB ==
    \/ WhereCall \/ ClauseCall \/ OrCall \/ LimitCall \/ OffsetCall \/ OrderByCall
    \/ GroupByCall \/ QBReadOne \/ QBReadAll

SpecQB == InitQB /\ [][NextQB]_vars

\* the positions of the chain where a condition was added
Added == {i \in DOMAIN chain : chain[i].call \in ClauseCalls}

\* the position of the k-th condition added
AddedAt(k) == CHOOSE i \in Added : Cardinality({j \in Added : j <= i}) = k

\* Or() was called after the previous condition was added and before the
\* one added at position i
OrSincePrevious(i) ==
    \E j \in 1..(i - 1) :
        /\ chain[j].call = "Or"
        /\ \A a \in Added : ~(j < a /\ a < i)

\* what the chain asks for: the conditions in the order added, OR exactly
\* after an Or()
Asked ==
    [k \in 1..Cardinality(Added) |->
        [field |-> chain[AddedAt(k)].field,
         operator |-> Operator(chain[AddedAt(k)].call),
         value |-> chain[AddedAt(k)].value,
         logic |-> IF OrSincePrevious(AddedAt(k)) THEN "OR" ELSE "AND"]]

\* C22: whatever the fluent calls, the builder holds the conditions in the
\* order they were added, a condition has logic OR exactly when Or() was
\* called since the previous condition was added (AND otherwise), and the
\* query handed to the compiler by ReadOne and ReadAll has exactly these
\* conditions.
C22_ConditionsInOrderOrOnce ==
    /\ qb.conds = Asked
    /\ last.query # NoQuery => last.query.Conditions = Asked

C22_Witness ==
    /\ chain = <<Fluent("Where", "a", ""), Fluent("Or", "", ""), Fluent("Neq", "a", "v"),
                 Fluent("Like", "a", "v")>>
    /\ last.action = ActionReadAll
    /\ last.query.Conditions =
          <<[field |-> "a", operator |-> "!=", value |-> "v", logic |-> "OR"],
            [field |-> "a", operator |-> "LIKE", value |-> "v", logic |-> "AND"]>>

====
